---- MODULE Spec2Model ----
(***************************************************************************)
(* A model of the reliability layer of the LinkedIn connection helper:     *)
(* the OperationQueue, the ErrorBoundary circuit breaker, the element      *)
(* finders, the configuration merge and the template substitution.         *)
(* Each component has its own specification over the shared variables; a   *)
(* component that a specification does not exercise keeps its initial      *)
(* value.                                                                  *)
(***************************************************************************)
EXTENDS Integers, Sequences, FiniteSets, TLC

(***************************************************************************)
(* Bounds of the model.                                                    *)
(***************************************************************************)
\* operations enqueued in one run
MaxOps == 3
\* closures that a timeout has left running at one time
MaxLate == 1
\* protect calls made in one run
MaxCalls == 6
\* clock steps in one run
MaxTicks == 2
\* elements in the document
MaxDom == 2
\* the largest options.maxAttempts a caller passes
MaxAttemptsOption == 2
\* tokens in a template
MaxTemplateLen == 3
\* resources of one kind (listeners, observers, timers) created in one run
MaxResources == 2
\* calls of ResourceManager.cleanup in one run
MaxCleanups == 2
\* fragments in the role of a profile
MaxRoleLen == 2
\* fragments in the university of a profile
MaxUniversityLen == 2
\* characters in the text of a name element or of a prompt entry
MaxNameLen == 3
\* operations enqueued in one run of the connection flow
MaxFlowOps == 6
\* Connect clicks in one run
MaxClicks == 2
\* seconds one run of the connection flow is followed for
MaxFlowSeconds == 30
\* ms fillConnectionMessage takes
FillMs == 1000
\* ms after which the page has inserted the modal when it does so promptly
PromptMs == 50
\* ms after which the page has inserted the modal when it is slow
SlowMs == 16000
\* the unit interval of Math.random() is cut into 2 * JitterSteps steps
JitterSteps == 8
\* the largest attempt number passed to calculateRetryDelay
MaxDelayAttempt == 7
\* the findElement calls of the ResilientElementFinder that are followed
MaxFindCalls == 3
\* the buttons in the document
MaxButtons == 1
\* the maxAttempts option of ResilientElementFinder.findElement (15 by default)
MaxRounds == 2
\* the StorageManager calls that are followed; they may overlap
MaxStorageCalls == 3
\* the clicks on a Connect button that are followed on a page
MaxPageClicks == 1
\* the handleConnection calls that are followed
MaxHandleCalls == 1

(***************************************************************************)
(* Program constants.                                                      *)
(***************************************************************************)
\* OperationQueue.retryConfig.maxRetries
maxRetries == 3
\* OperationQueue.maxHistorySize
maxHistorySize == 100

\* the operation types the model enqueues: the click operation of
\* connectButtonHandler and the insertion operation of waitForConnectionModal
OperationTypes == {"connect_button_click", "message_insertion"}

\* OperationQueue.operationPriorities
operationPriorities(type) ==
  CASE type = "connect_button_click" -> 10
    [] type = "modal_detection" -> 8
    [] type = "textarea_detection" -> 6
    [] type = "message_insertion" -> 4
    [] type = "cleanup" -> 2
    [] OTHER -> 5

\* the retryable option the flows pass with each type ("Don't retry click
\* events"); every other option keeps its default
RetryableOption(type) == type # "connect_button_click"

VARIABLES
  \* ---- OperationQueue
  ops,              \* the queuedOperation objects created so far, by id (1, 2, ...)
  queue,            \* OperationQueue.queue: ids of the waiting operations
  isProcessing,     \* OperationQueue.isProcessing
  current,          \* the operation whose executeOperation the loop awaits, 0 if none
  running,          \* closure invocations started and not yet finished: <<id, n>>
  retryTimers,      \* operations whose retry setTimeout is pending
  activeOperations, \* OperationQueue.activeOperations (its keys)
  operationHistory, \* OperationQueue.operationHistory
  \* ---- ErrorBoundary
  circuitBreakers,  \* ErrorBoundary.circuitBreakers: operation name -> breaker
  call,             \* the protect call in flight, or the last one finished
  nCalls,           \* protect calls made so far
  now,              \* Date.now(), in ms since the page was loaded
  failStreak,       \* per name: breaker-enabled calls in a row whose operation failed
  lastFailed,       \* per name: the time of the last recorded failure
  fallbackStrategies, \* ErrorBoundary.fallbackStrategies (its keys)
  recoveryStrategies, \* ErrorBoundary.recoveryStrategies (its keys)
  \* ---- LinkedInElementFinder
  dom,              \* the elements of the document, in document order
  finder,           \* the findElementWithRetry call: its closure variables
  \* ---- configuration merge
  storedConfig,     \* the configuration read from storage or from an import file
  mergedConfig,     \* the result of the merge with the defaults
  mergedBy,         \* "none", "storage" (StorageManager) or "popup" (PopupManager)
  \* ---- TemplateProcessor
  personalEmail,    \* TemplateProcessor.personalInfo.email
  template,         \* the template passed to processTemplate, as tokens
  variables,        \* the variables passed to processTemplate
  processed,        \* what processTemplate returned
  \* ---- insertPersonalizedMessage
  inserter,         \* the insertPersonalizedMessage call: its local variables
  \* ---- ResourceManager
  listeners,        \* ResourceManager.listeners
  observers,        \* ResourceManager.observers
  timers,           \* ResourceManager.timers
  attached,         \* the listeners attached to their element
  observing,        \* the observers that are connected
  armed,            \* the timers that are pending
  cleanups,         \* calls of ResourceManager.cleanup so far
  \* ---- TemplateProcessor.selectTemplate
  profileData,      \* the profileData passed to selectTemplate
  userTemplates,    \* TemplateProcessor.userTemplates (its keys)
  selected,         \* what selectTemplate returned
  \* ---- OperationQueue: cancelAll and the timers registered with the ResourceManager
  clearedTimeouts,  \* executions <<id, n>> whose timeout timer cleanup() has cleared
  pendingAtCancel,  \* ids of the operations that were pending at a cancelAll()
  \* ---- the v3.1 connection flow
  flowCalls,        \* the protect calls made by the flow, in call order
  flowTimers,       \* the pending timers of the flow, each with the time it is due
  modalShownAt,     \* when the page inserted the connection modal, 0 while there is none
  timedOut,         \* the timeouts that have rejected: <<"queue" or "boundary", name>>
  clicks,           \* Connect clicks handled so far
  \* ---- OperationQueue.calculateRetryDelay
  delayAttempt,     \* the attempt passed to calculateRetryDelay, 0 before the first call
  delayRandom,      \* what Math.random() returned in that call, in steps of 1/(2*JitterSteps)
  retryDelay,       \* what calculateRetryDelay returned, in ms
  \* ---- ResilientElementFinder
  page,             \* the buttons of the document, in document order
  selectorCache,    \* ResilientElementFinder.selectorCache, its entry for addNoteButton_default
  strategyStats,    \* ResilientElementFinder.strategyStats
  findCalls,        \* the findElement calls made so far: closure variables, then the result
  lastTried,        \* the strategies the latest run of tryStrategies has tried, in order
  \* ---- StorageManager and chrome.storage.sync
  syncStorage,      \* chrome.storage.sync: the value under the key liHelper
  defaultConfig,    \* StorageManager.defaultConfig, the object the constructor has made
  storageCalls,     \* the StorageManager calls made so far, each with its local variables
  \* ---- the content script on a page: clicks, toggle, waits
  extensionEnabled, \* let extensionEnabled
  documentHidden,   \* document.hidden
  connectClicks,    \* clicks on a Connect button since the script was loaded
  enabledClicks,    \* those of them made while extensionEnabled was true
  flowsStarted,     \* clicks for which the click listener has started a connection flow
  modalExists,      \* the connection modal is in the document
  textareaExists,   \* the message textarea is in the document
  modalWaits,       \* the waitForConnectionModal calls: their closure variables
  fillCalls,        \* the fillConnectionMessage calls
  textareaWaits,    \* the waitForTextareaAndInsert calls: their closure variables
  insertsRunning,   \* insertPersonalizedMessage calls that have not written yet
  insertedWhileDisabled,\* a message was written while extensionEnabled was false
  \* ---- the v4 script: handleConnection calls and the dialog they poll
  handleCalls,      \* the handleConnection calls: the stage each is in and what it has done
  dialog,           \* what the selectors of the v4 script find in the document
  cachedConfig      \* FastStorageManager.config is not null

qvars == <<ops, queue, isProcessing, current, running, retryTimers,
           activeOperations, operationHistory>>

ebvars == <<circuitBreakers, call, nCalls, now, failStreak, lastFailed,
            fallbackStrategies, recoveryStrategies>>

fvars == <<dom, finder>>

mvars == <<storedConfig, mergedConfig, mergedBy>>

tvars == <<personalEmail, template, variables, processed>>

nvars == <<inserter>>

rvars == <<listeners, observers, timers, attached, observing, armed, cleanups>>

svars == <<profileData, userTemplates, selected>>

cvars == <<clearedTimeouts, pendingAtCancel>>

wvars == <<flowCalls, flowTimers, modalShownAt, timedOut, clicks>>

dvars == <<delayAttempt, delayRandom, retryDelay>>

evars == <<page, selectorCache, strategyStats, findCalls, lastTried>>

gvars == <<syncStorage, defaultConfig, storageCalls>>

pvars == <<extensionEnabled, documentHidden, connectClicks, enabledClicks, flowsStarted, modalExists, textareaExists, modalWaits, fillCalls, textareaWaits, insertsRunning, insertedWhileDisabled>>

hvars == <<handleCalls, dialog, cachedConfig>>

vars == <<ops, queue, isProcessing, current, running, retryTimers,
          activeOperations, operationHistory,
          circuitBreakers, call, nCalls, now, failStreak, lastFailed,
          fallbackStrategies, recoveryStrategies,
          dom, finder,
          storedConfig, mergedConfig, mergedBy,
          personalEmail, template, variables, processed,
          inserter,
          listeners, observers, timers, attached, observing, armed, cleanups,
          profileData, userTemplates, selected,
          clearedTimeouts, pendingAtCancel,
          flowCalls, flowTimers, modalShownAt, timedOut, clicks,
          delayAttempt, delayRandom, retryDelay,
          page, selectorCache, strategyStats, findCalls, lastTried,
          syncStorage, defaultConfig, storageCalls,
          extensionEnabled, documentHidden, connectClicks, enabledClicks, flowsStarted, modalExists, textareaExists, modalWaits, fillCalls, textareaWaits, insertsRunning, insertedWhileDisabled,
          handleCalls, dialog, cachedConfig>>

\* what a step of one component leaves alone
QueueOnly == UNCHANGED <<ebvars, fvars, mvars, tvars, nvars, rvars, svars, cvars, wvars, dvars, evars, gvars, pvars, hvars>>
BoundaryOnly == UNCHANGED <<qvars, fvars, mvars, tvars, nvars, rvars, svars, cvars, wvars, dvars, evars, gvars, pvars, hvars>>
FinderOnly == UNCHANGED <<qvars, ebvars, mvars, tvars, nvars, rvars, svars, cvars, wvars, dvars, evars, gvars, pvars, hvars>>
MergeOnly == UNCHANGED <<qvars, ebvars, fvars, tvars, nvars, rvars, svars, cvars, wvars, dvars, evars, gvars, pvars, hvars>>
TemplateOnly == UNCHANGED <<qvars, ebvars, fvars, mvars, nvars, rvars, svars, cvars, wvars, dvars, evars, gvars, pvars, hvars>>
InserterOnly == UNCHANGED <<ebvars, fvars, mvars, tvars, qvars, rvars, svars, cvars, wvars, dvars, evars, gvars, pvars, hvars>>
ResourceOnly == UNCHANGED <<ebvars, fvars, mvars, tvars, nvars, qvars, svars, cvars, wvars, dvars, evars, gvars, pvars, hvars>>
SelectOnly == UNCHANGED <<ebvars, fvars, mvars, tvars, nvars, rvars, qvars, cvars, wvars, dvars, evars, gvars, pvars, hvars>>
FlowOnly == UNCHANGED <<fvars, mvars, tvars, nvars, rvars, svars, cvars, dvars, evars, gvars, pvars, hvars>>
DelayOnly == UNCHANGED <<ebvars, fvars, mvars, tvars, nvars, rvars, svars, cvars, wvars, qvars, evars, gvars, pvars, hvars>>
ResilientOnly == UNCHANGED <<ebvars, fvars, mvars, tvars, nvars, rvars, svars, cvars, wvars, dvars, qvars, gvars, pvars, hvars>>
StorageOnly == UNCHANGED <<ebvars, fvars, mvars, tvars, nvars, rvars, cvars, wvars, dvars, evars, qvars, profileData, selected, pvars, hvars>>
PageOnly == UNCHANGED <<ebvars, fvars, mvars, tvars, nvars, rvars, svars, cvars, wvars, dvars, evars, gvars, qvars, hvars>>
LifecycleOnly == UNCHANGED <<ebvars, fvars, mvars, tvars, nvars, svars, cvars, wvars, dvars, evars, gvars, qvars, hvars>>
HandleOnly == UNCHANGED <<ebvars, fvars, mvars, tvars, nvars, rvars, svars, cvars, wvars, dvars, evars, gvars, pvars, qvars>>

(***************************************************************************)
(* OperationQueue                                                          *)
(***************************************************************************)
OpIds == 1..Len(ops)

\* The queuedOperation built by enqueue. Beside the fields of the code it
\* records the number of closure invocations (execs), how each execution
\* ended as the race saw it (outcomes) and how the promise returned by
\* enqueue was settled (settled, value).
QueuedOperation(type) ==
  [type |-> type, priority |-> operationPriorities(type),
   retryable |-> RetryableOption(type), attempts |-> 0,
   status |-> "queued", lastError |-> <<"none", 0>>,
   execs |-> 0, outcomes |-> <<>>, settled |-> "pending",
   value |-> <<"none", 0>>]

\* Array.findIndex(op => op.priority < priority): 0 stands for -1
FindIndexLower(q, os, priority) ==
  LET hits == {i \in 1..Len(q) : os[q[i]].priority < priority}
  IN IF hits = {} THEN 0 ELSE CHOOSE i \in hits : \A j \in hits : i <= j

InsertAtEnd(q, os, id) == Append(q, id)

\* the insertion of enqueue: push, or splice before the first lower priority
InsertByPriority(q, os, id) ==
  LET i == FindIndexLower(q, os, os[id].priority)
  IN IF i = 0 THEN Append(q, id)
     ELSE SubSeq(q, 1, i - 1) \o <<id>> \o SubSeq(q, i, Len(q))

\* the retry timer's re-queue: queue.unshift(operation)
Requeue(q, id) == <<id>> \o q

\* addToHistory, with the slice that keeps the last maxHistorySize entries
AddToHistory(h, id, o) ==
  LET h2 == Append(h, [id |-> id, status |-> o.status, attempts |-> o.attempts])
  IN IF Len(h2) > maxHistorySize
     THEN SubSeq(h2, Len(h2) - maxHistorySize + 1, Len(h2))
     ELSE h2

ShouldRetryOnceMore(o) == o.retryable /\ o.attempts <= maxRetries

\* executeOperation retries when this holds after attempts was incremented
ShouldRetry(o) == o.retryable /\ o.attempts < maxRetries

\* One turn of the while loop of processQueue, entered with the queue q, the
\* operations os, the running closures run and the active set act: shift the
\* head and run executeOperation up to its await (the closure is called
\* synchronously), or leave the loop when the queue is empty.
LoopTurn(q, os, run, act) ==
  IF q = <<>>
  THEN /\ isProcessing' = FALSE
       /\ current' = 0
       /\ queue' = q
       /\ ops' = os
       /\ running' = run
       /\ activeOperations' = act
  ELSE LET id == Head(q)
           n == os[id].execs + 1
       IN /\ isProcessing' = TRUE
          /\ current' = id
          /\ queue' = Tail(q)
          /\ ops' = [os EXCEPT ![id].status = "executing", ![id].execs = n]
          /\ running' = run \cup {<<id, n>>}
          /\ activeOperations' = act \cup {id}

\* processQueue called from enqueue or from a retry timer
ProcessQueue(q, os) ==
  IF isProcessing \/ q = <<>>
  THEN /\ queue' = q
       /\ ops' = os
       /\ UNCHANGED <<isProcessing, current, running, activeOperations>>
  ELSE LoopTurn(q, os, running, activeOperations)

\* enqueue(operationType, operation, {retryable})
Enqueue(type) ==
  /\ Len(ops) < MaxOps
  /\ LET id == Len(ops) + 1
         os == Append(ops, QueuedOperation(type))
     IN ProcessQueue(InsertByPriority(queue, os, id), os)
  /\ UNCHANGED <<retryTimers, operationHistory>>
  /\ QueueOnly

\* The try branch of executeOperation after the race was won by the closure's
\* result, then the loop's next turn.
Succeed(run) ==
  LET id == current
      done == [ops[id] EXCEPT !.status = "completed", !.settled = "resolved",
                              !.outcomes = Append(@, "fulfilled"),
                              !.value = <<"result", ops[id].execs>>]
  IN /\ operationHistory' = AddToHistory(operationHistory, id, done)
     /\ UNCHANGED retryTimers
     /\ LoopTurn(queue, [ops EXCEPT ![id] = done], run, activeOperations \ {id})

\* The catch branch of executeOperation for the error err, then the loop's
\* next turn.
Fail(run, err) ==
  LET id == current
      failed == [ops[id] EXCEPT !.attempts = @ + 1, !.lastError = err,
                                !.outcomes = Append(@, "rejected")]
  IN IF ShouldRetry(failed)
     THEN /\ retryTimers' = retryTimers \cup {id}
          /\ UNCHANGED operationHistory
          /\ LoopTurn(queue, [ops EXCEPT ![id] = [failed EXCEPT !.status = "retrying"]],
                      run, activeOperations)
     ELSE LET done == [failed EXCEPT !.status = "failed", !.settled = "rejected",
                                     !.value = err]
          IN /\ operationHistory' = AddToHistory(operationHistory, id, done)
             /\ UNCHANGED retryTimers
             /\ LoopTurn(queue, [ops EXCEPT ![id] = done], run, activeOperations \ {id})

\* the closure invocation the loop is awaiting
CurrentRun == <<current, ops[current].execs>>

\* the awaited closure fulfils before the timeout
ClosureFulfils ==
  /\ current # 0
  /\ CurrentRun \in running
  /\ Succeed(running \ {CurrentRun})
  /\ QueueOnly

\* the awaited closure throws (its promise rejects) before the timeout
ClosureRejects ==
  /\ current # 0
  /\ CurrentRun \in running
  /\ Fail(running \ {CurrentRun}, <<"error", ops[current].execs>>)
  /\ QueueOnly

\* The timeout timer of the awaited execution fires: the race rejects, the
\* closure itself is not stopped and stays running. An error is identified by
\* the execution it ended, whether thrown or a timeout.
TimeoutFires ==
  /\ current # 0
  /\ CurrentRun \notin clearedTimeouts
  /\ Cardinality(running) <= MaxLate
  /\ Fail(running, <<"error", ops[current].execs>>)
  /\ QueueOnly

\* A closure whose race was already lost to the timeout finishes: its result
\* is dropped.
LateClosureFinish(r) ==
  /\ r \in running
  /\ (IF current = 0 THEN TRUE ELSE r # CurrentRun)
  /\ running' = running \ {r}
  /\ UNCHANGED <<ops, queue, isProcessing, current, retryTimers,
                 activeOperations, operationHistory>>
  /\ QueueOnly

\* the retry timer of operation id fires: unshift and processQueue
RetryTimerFires(id) ==
  /\ id \in retryTimers
  /\ retryTimers' = retryTimers \ {id}
  /\ ProcessQueue(Requeue(queue, id), ops)
  /\ UNCHANGED operationHistory
  /\ QueueOnly

\* the operations cancelAll is about: enqueued, not settled, not executing
PendingOperations == {id \in OpIds : ops[id].settled = "pending" /\ ops[id].status # "executing"}

\* cancelAll(): every operation in the queue array is rejected with
\* 'Operation cancelled' and the array is emptied
CancelAll ==
  /\ ops' = [id \in OpIds |->
               IF \E i \in 1..Len(queue) : queue[i] = id
               THEN [ops[id] EXCEPT !.settled = "rejected", !.value = <<"cancelled", 0>>]
               ELSE ops[id]]
  /\ queue' = <<>>
  /\ pendingAtCancel' = pendingAtCancel \cup PendingOperations
  /\ UNCHANGED <<isProcessing, current, running, retryTimers, activeOperations,
                 operationHistory, clearedTimeouts>>
  /\ UNCHANGED <<ebvars, fvars, mvars, tvars, nvars, rvars, svars, wvars, dvars, evars, gvars, pvars, hvars>>

\* ResourceManager.cleanup() as the queue sees it: clearTimeout for every
\* timer the queue has registered: the timeout timer of the execution under
\* way (those of earlier executions have fired) and the retry timers
QueueTimersCleared ==
  /\ retryTimers' = {}
  /\ clearedTimeouts' = IF current # 0 THEN {CurrentRun} ELSE {}
  /\ UNCHANGED <<ops, queue, isProcessing, current, running, activeOperations,
                 operationHistory, pendingAtCancel>>
  /\ UNCHANGED <<ebvars, fvars, mvars, tvars, nvars, rvars, svars, wvars, dvars, evars, gvars, pvars, hvars>>

(***************************************************************************)
(* ErrorBoundary                                                           *)
(***************************************************************************)
\* ErrorBoundary.config.circuitBreaker.failureThreshold
failureThreshold == 3
\* ErrorBoundary.config.circuitBreaker.timeout, in ms
circuitTimeout == 30000
\* ErrorBoundary.config.circuitBreaker.successThreshold
successThreshold == 2
\* ErrorBoundary.config.retry.maxRetries
boundaryMaxRetries == 3

\* the clock is read in steps of the OPEN timeout
TickMs == circuitTimeout

\* The model follows the protect calls of one operation name, made one after
\* the other, each awaited before the next as in testErrorBoundary. The strategies
\* are registered when the script loads (fallbackStrategies.set,
\* recoveryStrategies.set): a name has both, a fallback alone or neither. No
\* caller passes the fallbackStrategy or recoveryStrategy option, so the two
\* maps do not change afterwards.
Names == {"modal_detection"}

\* no entry in the circuitBreakers map
NoBreaker ==
  [state |-> "NONE", consecutiveFailures |-> 0, consecutiveSuccesses |-> 0,
   lastFailureTime |-> 0]

\* createCircuitBreaker (lastFailureTime null is written 0: it is read only
\* in the OPEN state, which a recorded failure has set)
createCircuitBreaker ==
  [state |-> "CLOSED", consecutiveFailures |-> 0, consecutiveSuccesses |-> 0,
   lastFailureTime |-> 0]

OpenTimeoutReached(b, t) == t - b.lastFailureTime >= circuitTimeout

\* isCircuitOpen: the OPEN timeout has passed
OpenTimeoutPassed(b, t) == t - b.lastFailureTime > circuitTimeout

\* isCircuitOpen: its result
isCircuitOpen(b, t) == b.state = "OPEN" /\ ~OpenTimeoutPassed(b, t)

AfterCircuitCheckAtOnce(b, t) ==
  IF b.state = "OPEN"
  THEN [b EXCEPT !.state = "HALF_OPEN", !.consecutiveSuccesses = 0]
  ELSE b

\* isCircuitOpen: the breaker it leaves (OPEN becomes HALF_OPEN after the timeout)
AfterCircuitCheck(b, t) ==
  IF b.state = "OPEN" /\ OpenTimeoutPassed(b, t)
  THEN [b EXCEPT !.state = "HALF_OPEN", !.consecutiveSuccesses = 0]
  ELSE b

\* recordSuccess
recordSuccess(b) ==
  LET b0 == IF b = NoBreaker THEN createCircuitBreaker ELSE b
      b1 == [b0 EXCEPT !.consecutiveFailures = 0]
  IN IF b1.state = "HALF_OPEN"
     THEN LET n == b1.consecutiveSuccesses + 1
          IN [b1 EXCEPT !.consecutiveSuccesses = n,
                        !.state = IF n >= successThreshold THEN "CLOSED" ELSE @]
     ELSE b1

ExceedsFailureThreshold(n) == n > failureThreshold

\* recordFailure: the circuit opens at this count
ReachesFailureThreshold(n) == n >= failureThreshold

\* recordFailure at time t
recordFailure(b, t) ==
  LET b0 == IF b = NoBreaker THEN createCircuitBreaker ELSE b
      n == b0.consecutiveFailures + 1
  IN [b0 EXCEPT !.consecutiveFailures = n, !.lastFailureTime = t,
                !.state = IF ReachesFailureThreshold(n) THEN "OPEN" ELSE @]

\* no protect call made yet
IdleCall ==
  [pc |-> "idle", name |-> "none", enableCircuitBreaker |-> FALSE,
   enableRetry |-> FALSE, enableGracefulDegradation |-> FALSE,
   opKind |-> "none", attempt |-> 0, invoked |-> 0, opFulfilled |-> FALSE,
   fallbackRan |-> "no", outcome |-> "none", openAtStart |-> FALSE,
   guardedAtStart |-> FALSE]

Done(c, outcome) == [c EXCEPT !.pc = "done", !.outcome = outcome]

\* executeFallback up to its await: null when no fallback is registered
executeFallback(c) ==
  IF c.name \notin fallbackStrategies
  THEN Done(c, "null")
  ELSE [c EXCEPT !.pc = "fallback"]

RethrowWithoutFallback(c) ==
  IF c.enableGracefulDegradation /\ c.name \in fallbackStrategies
  THEN executeFallback(c)
  ELSE Done(c, "rejected")

\* the end of the catch branch of protect: the fallback when graceful
\* degradation is enabled, otherwise the error is thrown again
DegradeOrThrow(c) ==
  IF c.enableGracefulDegradation
  THEN executeFallback(c)
  ELSE Done(c, "rejected")

\* the catch branch of protect once the retries are over or disabled: the
\* recovery strategy runs first when one is registered
AfterFailure(c) ==
  IF c.name \in recoveryStrategies
  THEN [c EXCEPT !.pc = "recovery"]
  ELSE DegradeOrThrow(c)

\* protect(operationName, operation, options) up to its first await. opKind
\* says how the operation closure behaves: "fails" throws at every call,
\* "flaky" may fulfil or throw.
ProtectCall(name, cb, retry, degrade, opKind) ==
  /\ nCalls < MaxCalls
  /\ call.pc \in {"idle", "done"}
  /\ nCalls' = nCalls + 1
  /\ LET b == circuitBreakers[name]
         c == [IdleCall EXCEPT
                 !.name = name, !.enableCircuitBreaker = cb, !.enableRetry = retry,
                 !.enableGracefulDegradation = degrade, !.opKind = opKind,
                 !.openAtStart = (b.state = "OPEN"
                                  /\ now - b.lastFailureTime <= circuitTimeout),
                 !.guardedAtStart = (failStreak[name] >= failureThreshold
                                     /\ now - lastFailed[name] <= circuitTimeout)]
     IN /\ circuitBreakers' =
             IF cb THEN [circuitBreakers EXCEPT ![name] = AfterCircuitCheck(b, now)]
                   ELSE circuitBreakers
        /\ call' = IF cb /\ isCircuitOpen(b, now)
                    THEN executeFallback(c)
                    ELSE [c EXCEPT !.pc = "op", !.invoked = 1]
  /\ UNCHANGED <<now, failStreak, lastFailed>>
  /\ UNCHANGED <<fallbackStrategies, recoveryStrategies>>
  /\ BoundaryOnly

\* the first execution of the operation fulfils within the timeout
OperationFulfils ==
  LET c == call IN
  /\ c.pc = "op"
  /\ c.opKind = "flaky"
  /\ call' = Done([c EXCEPT !.opFulfilled = TRUE], "result")
  /\ IF c.enableCircuitBreaker
     THEN /\ circuitBreakers' = [circuitBreakers EXCEPT
                                   ![c.name] = recordSuccess(circuitBreakers[c.name])]
          /\ failStreak' = [failStreak EXCEPT ![c.name] = 0]
     ELSE UNCHANGED <<circuitBreakers, failStreak>>
  /\ UNCHANGED <<nCalls, now, lastFailed>>
  /\ UNCHANGED <<fallbackStrategies, recoveryStrategies>>
  /\ BoundaryOnly

\* the first execution of the operation throws or runs into the timeout
OperationFails ==
  LET c == call IN
  /\ c.pc = "op"
  /\ call' = IF c.enableRetry
       THEN [c EXCEPT !.pc = "retrywait", !.attempt = 1]
       ELSE AfterFailure(c)
  /\ IF c.enableCircuitBreaker
     THEN /\ circuitBreakers' = [circuitBreakers EXCEPT
                                   ![c.name] = recordFailure(circuitBreakers[c.name], now)]
          /\ failStreak' = [failStreak EXCEPT ![c.name] = @ + 1]
          /\ lastFailed' = [lastFailed EXCEPT ![c.name] = now]
     ELSE UNCHANGED <<circuitBreakers, failStreak, lastFailed>>
  /\ UNCHANGED <<nCalls, now>>
  /\ UNCHANGED <<fallbackStrategies, recoveryStrategies>>
  /\ BoundaryOnly

\* executeWithRetry: the delay before a retry is over, the operation is called
RetryDelayOver ==
  LET c == call IN
  /\ c.pc = "retrywait"
  /\ call' = [c EXCEPT !.pc = "retryop", !.invoked = @ + 1]
  /\ UNCHANGED <<circuitBreakers, nCalls, now, failStreak, lastFailed>>
  /\ UNCHANGED <<fallbackStrategies, recoveryStrategies>>
  /\ BoundaryOnly

\* executeWithRetry: a retry fulfils; protect returns its result
RetryFulfils ==
  LET c == call IN
  /\ c.pc = "retryop"
  /\ c.opKind = "flaky"
  /\ call' = Done([c EXCEPT !.opFulfilled = TRUE], "result")
  /\ failStreak' = IF c.enableCircuitBreaker
                   THEN [failStreak EXCEPT ![c.name] = 0]
                   ELSE failStreak
  /\ UNCHANGED <<circuitBreakers, nCalls, now, lastFailed>>
  /\ UNCHANGED <<fallbackStrategies, recoveryStrategies>>
  /\ BoundaryOnly

\* executeWithRetry: a retry fails; the next one, or the last error is thrown
RetryFails ==
  LET c == call IN
  /\ c.pc = "retryop"
  /\ call' = IF c.attempt < boundaryMaxRetries
       THEN [c EXCEPT !.pc = "retrywait", !.attempt = @ + 1]
       ELSE AfterFailure(c)
  /\ UNCHANGED <<circuitBreakers, nCalls, now, failStreak, lastFailed>>
  /\ UNCHANGED <<fallbackStrategies, recoveryStrategies>>
  /\ BoundaryOnly

\* executeRecovery returns or throws: protect goes on either way
RecoveryReturns ==
  LET c == call IN
  /\ c.pc = "recovery"
  /\ call' = DegradeOrThrow(c)
  /\ UNCHANGED <<circuitBreakers, nCalls, now, failStreak, lastFailed>>
  /\ UNCHANGED <<fallbackStrategies, recoveryStrategies>>
  /\ BoundaryOnly

\* executeFallback: the fallback closure fulfils
FallbackFulfils ==
  LET c == call IN
  /\ c.pc = "fallback"
  /\ call' = Done([c EXCEPT !.fallbackRan = "fulfilled"], "fallback")
  /\ UNCHANGED <<circuitBreakers, nCalls, now, failStreak, lastFailed>>
  /\ UNCHANGED <<fallbackStrategies, recoveryStrategies>>
  /\ BoundaryOnly

\* executeFallback: the fallback closure throws; null is returned
FallbackThrows ==
  LET c == call IN
  /\ c.pc = "fallback"
  /\ call' = Done([c EXCEPT !.fallbackRan = "threw"], "null")
  /\ UNCHANGED <<circuitBreakers, nCalls, now, failStreak, lastFailed>>
  /\ UNCHANGED <<fallbackStrategies, recoveryStrategies>>
  /\ BoundaryOnly

\* time passes
Tick ==
  /\ now < MaxTicks * TickMs
  /\ now' = now + TickMs
  /\ UNCHANGED <<circuitBreakers, call, nCalls, failStreak, lastFailed>>
  /\ UNCHANGED <<fallbackStrategies, recoveryStrategies>>
  /\ BoundaryOnly

\* resetCircuitBreaker(operationName), from the debug console
ResetCircuitBreaker(name) ==
  /\ circuitBreakers[name] # NoBreaker
  /\ circuitBreakers' = [circuitBreakers EXCEPT ![name] = NoBreaker]
  /\ UNCHANGED <<call, nCalls, now, failStreak, lastFailed>>
  /\ UNCHANGED <<fallbackStrategies, recoveryStrategies>>
  /\ BoundaryOnly

(***************************************************************************)
(* The v3.1 connection flow: connectButtonHandler, waitForConnectionModal  *)
(***************************************************************************)
\* the operation names of the flow; each is both the name of a protect call
\* and the type of the operation that call enqueues
FlowNames == {"connect_button_click", "modal_detection", "message_insertion"}

\* the timeout option of the protect calls of the flow, in ms
ProtectTimeout(name) ==
  CASE name = "connect_button_click" -> 20000
    [] name = "modal_detection" -> 10000
    [] OTHER -> 12000

\* the enableRetry option of the protect calls of the flow
ProtectRetry(name) == name # "connect_button_click"

\* the timeout option of the enqueue calls of the flow, in ms
EnqueueTimeout(type) ==
  CASE type = "connect_button_click" -> 15000
    [] type = "modal_detection" -> 8000
    [] OTHER -> 10000

\* OperationQueue.retryConfig.baseDelay and maxDelay, in ms
baseDelay == 1000
maxDelay == 8000
\* ErrorBoundary.config.retry.baseDelay and maxDelay, in ms
boundaryBaseDelay == 1000
boundaryMaxDelay == 10000
\* retryConfig.backoffMultiplier, the same in both
backoffMultiplier == 2
\* the delay of the "immediate check" timer of waitForConnectionModal, in ms
immediateCheckMs == 100
\* the time fifty observer calls are taken to need ("5 seconds at 100ms
\* intervals"), in ms
maxAttemptsMs == 5000

Min(a, b) == IF a <= b THEN a ELSE b

\* Math.random() * 2 - 1, in steps of 1/JitterSteps: from -1 to just below 1
Jitters == -JitterSteps..(JitterSteps - 1)

\* the jitter at its ends and in the middle
FlowJitters == {-JitterSteps, 0, JitterSteps - 1}

\* Math.round of the fraction num/den (num >= 0, den > 0)
MathRound(num, den) == (2 * num + den) \div (2 * den)

\* OperationQueue.calculateRetryDelay: the delay is capped at maxDelay, then
\* the jitter, a quarter of the delay times jit/JitterSteps, is added
calculateRetryDelay(attempt, jit) ==
  LET d == Min(baseDelay * backoffMultiplier ^ (attempt - 1), maxDelay)
  IN MathRound(d * (4 * JitterSteps + jit), 4 * JitterSteps)

\* the delay of executeWithRetry before retry number attempt
BoundaryRetryDelay(attempt) ==
  Min(boundaryBaseDelay * backoffMultiplier ^ (attempt - 1), boundaryMaxDelay)

\* The state the handlers of the flow work on, at time t. A handler (a click,
\* a timer callback, a mutation callback) runs to completion together with
\* the promise reactions it causes: todo holds the reactions still to run.
World ==
  [ops |-> ops, queue |-> queue, isProcessing |-> isProcessing,
   current |-> current, running |-> running, retryTimers |-> retryTimers,
   activeOperations |-> activeOperations, operationHistory |-> operationHistory,
   circuitBreakers |-> circuitBreakers, calls |-> flowCalls,
   timers |-> flowTimers, modalShownAt |-> modalShownAt, timedOut |-> timedOut,
   todo |-> <<>>, t |-> now]

Timer(kind, ref, n, at) == [kind |-> kind, ref |-> ref, n |-> n, at |-> at]

Job(job, ref, n) == [job |-> job, ref |-> ref, n |-> n]

\* executeOperation up to its await: the timeout timer is armed and the
\* closure is called at once, before any pending reaction
StartOperation(w, oid) ==
  LET n == w.ops[oid].execs + 1
  IN [w EXCEPT !.ops[oid].status = "executing", !.ops[oid].execs = n,
               !.running = @ \cup {<<oid, n>>},
               !.activeOperations = @ \cup {oid},
               !.timers = @ \cup {Timer("operationTimeout", oid, n,
                                        w.t + EnqueueTimeout(w.ops[oid].type))},
               !.todo = <<Job("closure", oid, n)>> \o @]

\* one turn of the while loop of processQueue
FlowLoopTurn(w) ==
  IF w.queue = <<>>
  THEN [w EXCEPT !.isProcessing = FALSE, !.current = 0]
  ELSE StartOperation([w EXCEPT !.isProcessing = TRUE, !.current = Head(w.queue),
                                !.queue = Tail(@)],
                      Head(w.queue))

\* processQueue: it returns at once while the loop is running
FlowProcessQueue(w) ==
  IF w.isProcessing \/ w.queue = <<>> THEN w ELSE FlowLoopTurn(w)

\* enqueue(type, ...)
FlowEnqueue(w, type) ==
  LET oid == Len(w.ops) + 1
      os == Append(w.ops, QueuedOperation(type))
  IN FlowProcessQueue([w EXCEPT !.ops = os,
                                !.queue = InsertByPriority(@, os, oid)])

\* a protect call that is awaiting its operation; parent says who awaits the
\* call: the click handler, the closure of an operation, or its onSuccess
NewCall(name, parent) ==
  [name |-> name, pc |-> "op", attempt |-> 0, awaits |-> 0, parent |-> parent,
   outcome |-> "none"]

\* executeWithTimeout for call c: the timer is armed, then the operation is
\* called, which enqueues an operation of the call's name and awaits it
FlowExecuteWithTimeout(w, c) ==
  LET w1 == [w EXCEPT !.timers = @ \cup {Timer("boundaryTimeout", c, w.calls[c].attempt,
                                               w.t + ProtectTimeout(w.calls[c].name))},
                      !.calls[c].pc = "op",
                      !.calls[c].awaits = Len(w.ops) + 1]
  IN FlowEnqueue(w1, w.calls[c].name)

\* executeFallback (every name of the flow has a fallback strategy, none of
\* them waits for a timer), then protect returns
FlowFallback(w, c) ==
  [w EXCEPT !.calls[c].pc = "done", !.calls[c].outcome = "fallback",
            !.todo = Append(@, Job("returned", c, 0))]

\* protect(name, ...) called by parent, up to its first await
FlowProtect(w, name, parent) ==
  LET c == Len(w.calls) + 1
      b == w.circuitBreakers[name]
      w1 == [w EXCEPT !.calls = Append(@, NewCall(name, parent)),
                      !.circuitBreakers[name] = AfterCircuitCheck(b, w.t)]
  IN IF isCircuitOpen(b, w.t)
     THEN FlowFallback(w1, c)
     ELSE FlowExecuteWithTimeout(w1, c)

\* cancelAll()
FlowCancelAll(w) ==
  LET q == w.queue
  IN [w EXCEPT !.ops = [i \in 1..Len(w.ops) |->
                          IF \E k \in 1..Len(q) : q[k] = i
                          THEN [w.ops[i] EXCEPT !.settled = "rejected",
                                                !.value = <<"cancelled", 0>>]
                          ELSE w.ops[i]],
               !.queue = <<>>,
               !.todo = @ \o [k \in 1..Len(q) |-> Job("settled", q[k], 0)]]

\* the end of the catch branch of protect: the recovery strategy (that of
\* connect_button_click calls cancelAll, the others only log), then the
\* fallback
FlowGiveUp(w, c) ==
  FlowFallback(IF w.calls[c].name = "connect_button_click" THEN FlowCancelAll(w) ELSE w, c)

\* The operation of call c failed or ran into the timeout of protect. The
\* first execution is in the try block of protect: the failure is recorded
\* and executeWithRetry is entered when retries are enabled. A later one is
\* in the loop of executeWithRetry.
FlowCallFailed(w, c) ==
  LET k == w.calls[c].attempt
      w1 == IF k = 0
            THEN [w EXCEPT !.circuitBreakers[w.calls[c].name] = recordFailure(@, w.t)]
            ELSE w
  IN IF (IF k = 0 THEN ProtectRetry(w.calls[c].name) ELSE k < boundaryMaxRetries)
     THEN [w1 EXCEPT !.calls[c].pc = "retrywait", !.calls[c].attempt = k + 1,
                     !.calls[c].awaits = 0,
                     !.timers = @ \cup {Timer("boundaryRetry", c, k + 1,
                                              w.t + BoundaryRetryDelay(k + 1))}]
     ELSE FlowGiveUp(w1, c)

\* The promise that enqueue returned for operation oid was settled: the
\* executeWithTimeout awaiting it clears its timer and protect goes on. Only
\* the first execution records a success.
FlowSettled(w, oid) ==
  LET cs == {c \in 1..Len(w.calls) : w.calls[c].pc = "op" /\ w.calls[c].awaits = oid}
  IN IF cs = {}
     THEN w
     ELSE LET c == CHOOSE x \in cs : TRUE
              w1 == [w EXCEPT !.timers = {x \in @ : ~(x.kind = "boundaryTimeout" /\ x.ref = c)}]
          IN IF w.ops[oid].settled = "resolved"
             THEN [w1 EXCEPT !.circuitBreakers[w.calls[c].name] =
                                IF w.calls[c].attempt = 0 THEN recordSuccess(@) ELSE @,
                             !.calls[c].pc = "done", !.calls[c].outcome = "result",
                             !.todo = Append(@, Job("returned", c, 0))]
             ELSE FlowCallFailed(w1, c)

\* operation.resolve(result), the return of executeOperation and the next
\* turn of the loop
FlowResolve(w, oid) ==
  FlowLoopTurn([w EXCEPT !.ops[oid].settled = "resolved",
                         !.ops[oid].value = <<"result", w.ops[oid].execs>>,
                         !.todo = Append(@, Job("settled", oid, 0))])

\* The try branch of executeOperation after the race: the operation is
\* completed and in the history before onSuccess is awaited. The onSuccess of
\* modal_detection awaits protect('message_insertion', ...); that of
\* connect_button_click only logs and message_insertion has none.
FlowSucceed(w, oid) ==
  LET done == [w.ops[oid] EXCEPT !.status = "completed",
                                 !.outcomes = Append(@, "fulfilled")]
      w1 == [w EXCEPT !.ops[oid] = done,
                      !.activeOperations = @ \ {oid},
                      !.operationHistory = AddToHistory(@, oid, done)]
  IN IF done.type = "modal_detection"
     THEN FlowProtect(w1, "message_insertion",
                      [kind |-> "onSuccess", ref |-> oid, n |-> done.execs])
     ELSE FlowResolve(w1, oid)

\* the catch branch of executeOperation, then the next turn of the loop
FlowFail(w, oid, jit) ==
  LET failed == [w.ops[oid] EXCEPT !.attempts = @ + 1,
                                   !.lastError = <<"error", w.ops[oid].execs>>,
                                   !.outcomes = Append(@, "rejected")]
  IN IF ShouldRetry(failed)
     THEN FlowLoopTurn(
            [w EXCEPT !.ops[oid] = [failed EXCEPT !.status = "retrying"],
                      !.retryTimers = @ \cup {oid},
                      !.timers = @ \cup {Timer("operationRetry", oid, failed.attempts,
                                               w.t + calculateRetryDelay(failed.attempts, jit))}])
     ELSE LET done == [failed EXCEPT !.status = "failed", !.settled = "rejected",
                                     !.value = failed.lastError]
          IN FlowLoopTurn(
               [w EXCEPT !.ops[oid] = done,
                         !.activeOperations = @ \ {oid},
                         !.operationHistory = AddToHistory(@, oid, done),
                         !.todo = Append(@, Job("settled", oid, 0))])

\* The promise of closure invocation n of operation oid fulfils (ok) or
\* rejects. The race of executeOperation hears of it when it has not been
\* lost to the timeout; otherwise the result is dropped.
FlowClosureDone(w, oid, n, ok, jit) ==
  IF <<oid, n>> \notin w.running
  THEN w
  ELSE LET w1 == [w EXCEPT !.running = @ \ {<<oid, n>>}]
       IN IF w.current = oid /\ w.ops[oid].status = "executing" /\ w.ops[oid].execs = n
          THEN IF ok THEN FlowSucceed(w1, oid) ELSE FlowFail(w1, oid, jit)
          ELSE w1

\* The closure of an operation, called by executeOperation, up to its first
\* await. connect_button_click: waitForConnectionModal, that is
\* protect('modal_detection', ...). modal_detection: the observer is connected
\* and the 100 ms check is armed; the page may mutate often enough for the
\* observer to be called fifty times, which takes maxAttemptsMs.
\* message_insertion: fillConnectionMessage, which ends, well or not, after
\* FillMs.
FlowRunClosure(w, oid, n) ==
  CASE w.ops[oid].type = "connect_button_click" ->
         FlowProtect(w, "modal_detection", [kind |-> "closure", ref |-> oid, n |-> n])
    [] w.ops[oid].type = "modal_detection" ->
         [w EXCEPT !.timers = @ \cup {Timer("immediateCheck", oid, n, w.t + immediateCheckMs),
                                      Timer("fiftiethMutation", oid, n, w.t + maxAttemptsMs)}]
    [] OTHER ->
         [w EXCEPT !.timers = @ \cup {Timer("fillConnectionMessage", oid, n, w.t + FillMs)}]

\* protect call c returned: whoever awaited it goes on
FlowReturned(w, c, jit) ==
  LET p == w.calls[c].parent
  IN CASE p.kind = "closure" -> FlowClosureDone(w, p.ref, p.n, TRUE, jit)
       [] p.kind = "onSuccess" -> FlowResolve(w, p.ref)
       [] OTHER -> w

RECURSIVE FlowDrain(_, _)
\* the pending reactions run, in order, until none is left
FlowDrain(w, jit) ==
  IF w.todo = <<>>
  THEN w
  ELSE LET j == Head(w.todo)
           w1 == [w EXCEPT !.todo = Tail(@)]
       IN FlowDrain(CASE j.job = "closure" -> FlowRunClosure(w1, j.ref, j.n)
                      [] j.job = "settled" -> FlowSettled(w1, j.ref)
                      [] j.job = "observed" -> FlowClosureDone(w1, j.ref, j.n, TRUE, jit)
                      [] OTHER -> FlowReturned(w1, j.ref, jit),
                    jit)

\* the running closures of modal_detection operations: their observers are
\* connected
Observing(w) == {r \in w.running : w.ops[r[1]].type = "modal_detection"}

RECURSIVE ObservedJobs(_)
\* a mutation callback for every connected observer, oldest first
ObservedJobs(rs) ==
  IF rs = {}
  THEN <<>>
  ELSE LET r == CHOOSE x \in rs : \A y \in rs : x[1] < y[1] \/ (x[1] = y[1] /\ x[2] <= y[2])
       IN <<Job("observed", r[1], r[2])>> \o ObservedJobs(rs \ {r})

\* the callback of timer x
FlowTimerFired(w, x, ok, jit) ==
  CASE x.kind = "operationTimeout" ->
         \* the race of executeOperation rejects, unless it is over
         IF w.current = x.ref /\ w.ops[x.ref].status = "executing"
            /\ w.ops[x.ref].execs = x.n
         THEN FlowFail([w EXCEPT !.timedOut = @ \cup {<<"queue", w.ops[x.ref].type>>}],
                       x.ref, jit)
         ELSE w
    [] x.kind = "boundaryTimeout" ->
         \* executeWithTimeout rejects
         FlowCallFailed([w EXCEPT !.timedOut = @ \cup {<<"boundary", w.calls[x.ref].name>>}],
                        x.ref)
    [] x.kind = "boundaryRetry" ->
         \* executeWithRetry: the delay is over
         FlowExecuteWithTimeout(w, x.ref)
    [] x.kind = "operationRetry" ->
         \* queue.unshift(operation); processQueue()
         FlowProcessQueue([w EXCEPT !.retryTimers = @ \ {x.ref},
                                    !.queue = Requeue(@, x.ref)])
    [] x.kind = "immediateCheck" ->
         IF w.modalShownAt # 0 THEN FlowClosureDone(w, x.ref, x.n, TRUE, jit) ELSE w
    [] x.kind = "fillConnectionMessage" ->
         FlowClosureDone(w, x.ref, x.n, ok, jit)
    [] x.kind = "fiftiethMutation" ->
         \* attempts >= maxAttempts and still no modal: the closure rejects;
         \* ok when the page has mutated less often
         IF w.modalShownAt = 0 /\ ~ok THEN FlowClosureDone(w, x.ref, x.n, FALSE, jit) ELSE w
    [] OTHER ->
         \* the page inserts the modal
         [w EXCEPT !.modalShownAt = w.t, !.todo = ObservedJobs(Observing(w))]

\* the handler has run: the program is in the state it has left
FlowApply(w) ==
  /\ Len(w.ops) <= MaxFlowOps
  /\ ops' = w.ops
  /\ queue' = w.queue
  /\ isProcessing' = w.isProcessing
  /\ current' = w.current
  /\ running' = w.running
  /\ retryTimers' = w.retryTimers
  /\ activeOperations' = w.activeOperations
  /\ operationHistory' = w.operationHistory
  /\ circuitBreakers' = w.circuitBreakers
  /\ flowCalls' = w.calls
  /\ flowTimers' = w.timers
  /\ modalShownAt' = w.modalShownAt
  /\ timedOut' = w.timedOut
  /\ now' = w.t
  /\ UNCHANGED <<call, nCalls, failStreak, lastFailed, fallbackStrategies,
                 recoveryStrategies>>
  /\ FlowOnly

\* connectButtonHandler for a click on a Connect button. The page answers the
\* click by inserting the modal after delay ms, or not at all (delay 0).
ConnectButtonClicked(delay) ==
  /\ clicks < MaxClicks
  /\ clicks' = clicks + 1
  /\ LET rendering == modalShownAt # 0 \/ \E x \in flowTimers : x.kind = "modalRender"
         w0 == IF delay = 0 \/ rendering
               THEN World
               ELSE [World EXCEPT !.timers = @ \cup {Timer("modalRender", 0, 0, now + delay)}]
     IN FlowApply(FlowDrain(FlowProtect(w0, "connect_button_click",
                                        [kind |-> "click", ref |-> clicks + 1, n |-> 0]),
                            0))

\* the pending timer that is due first fires
FlowTimerFires(x, ok, jit) ==
  /\ x \in flowTimers
  /\ \A y \in flowTimers : x.at <= y.at
  /\ x.at <= MaxFlowSeconds * 1000
  /\ UNCHANGED clicks
  /\ FlowApply(FlowDrain(FlowTimerFired([World EXCEPT !.t = x.at, !.timers = @ \ {x}],
                                        x, ok, jit),
                         jit))

(***************************************************************************)
(* LinkedInElementFinder                                                   *)
(***************************************************************************)
\* LinkedInElementFinder.retryAttempts
retryAttempts == 15

\* The selector groups of a call, shaped like those of findAddNoteButton: a
\* first group of attribute selectors on buttons, with a validator, and
\* a last group with the selector 'button'; the last group has no validator,
\* the case the loop tests for.
Selectors == {"button[aria-label]", "button[data-test]", "button"}

\* a selector the browser does not support, as :has() is in older ones:
\* document.querySelector throws a SyntaxError on it
UnsupportedSelectors == {"section:has(.pvs-entity)"}

selectorGroups ==
  <<[name |-> "Primary",
     selectors |-> <<"section:has(.pvs-entity)", "button[aria-label]", "button[data-test]">>,
     validator |-> TRUE],
    [name |-> "Fallback", selectors |-> <<"button">>, validator |-> FALSE]>>

\* An element of the document, a button: the selectors it matches ('button'
\* is one of them), whether the validator of the caller accepts it, whether
\* the validator of the first group accepts it.
Elements ==
  [matches : {m \in SUBSET Selectors : "button" \in m},
   callerOk : BOOLEAN, groupOk : BOOLEAN]

\* what the promise resolves with when nothing was found
NullResult == [element |-> 0, selector |-> "none", strategy |-> "none"]

\* no findElementWithRetry call made yet; option is options.maxAttempts as
\* passed (0: not passed), misses counts the rounds that found nothing
IdleFinder ==
  [pc |-> "idle", option |-> 0, maxAttempts |-> 0, attempts |-> 0, misses |-> 0,
   result |-> NullResult]

\* document.querySelector(selector): the first element in document order
\* that matches, as its index; 0 for null
querySelector(d, selector) ==
  LET hits == {i \in 1..Len(d) : selector \in d[i].matches}
  IN IF hits = {} THEN 0 ELSE CHOOSE i \in hits : \A j \in hits : i <= j

\* the (group, selector) positions of one group, in selector order
PairsOf(g) == [k \in 1..Len(selectorGroups[g].selectors) |-> <<g, k>>]

RECURSIVE PairsUpTo(_)
PairsUpTo(g) == IF g = 0 THEN <<>> ELSE PairsUpTo(g - 1) \o PairsOf(g)

\* the two nested for loops of tryFind visit the pairs in this order
SelectorPairs == PairsUpTo(Len(selectorGroups))

\* the body of the inner loop for one pair: the element it resolves with,
\* 0 when the selector throws (the catch logs and the loop goes on), matches
\* nothing, or its match fails a validator
TrySelector(d, p) ==
  LET group == selectorGroups[p[1]]
      selector == group.selectors[p[2]]
  IN IF selector \in UnsupportedSelectors
     THEN 0
     ELSE LET e == querySelector(d, selector)
          IN IF e = 0 THEN 0
             ELSE IF d[e].callerOk /\ (IF group.validator THEN d[e].groupOk ELSE TRUE)
                  THEN e
                  ELSE 0

RECURSIVE ProbeFrom(_, _)
\* the loops of tryFind from pair i on: what the round resolves with, or
\* NullResult when it falls through the loops
ProbeFrom(d, i) ==
  IF i > Len(SelectorPairs)
  THEN NullResult
  ELSE LET p == SelectorPairs[i]
           e == TrySelector(d, p)
       IN IF e # 0
          THEN [element |-> e,
                selector |-> selectorGroups[p[1]].selectors[p[2]],
                strategy |-> selectorGroups[p[1]].name]
          ELSE ProbeFrom(d, i + 1)

AttemptsRemainOrLast(f) == f.attempts <= f.maxAttempts

\* tryFind: attempts remain after a round that found nothing
AttemptsRemain(f) == f.attempts < f.maxAttempts

\* tryFind: one probe round
tryFind(f, d) ==
  LET r == ProbeFrom(d, 1)
      f1 == [f EXCEPT !.attempts = @ + 1]
  IN IF r # NullResult
     THEN [f1 EXCEPT !.pc = "resolved", !.result = r]
     ELSE LET f2 == [f1 EXCEPT !.misses = @ + 1]
          IN IF AttemptsRemain(f2)
             THEN [f2 EXCEPT !.pc = "waiting"]
             ELSE [f2 EXCEPT !.pc = "resolved", !.result = NullResult]

\* findElementWithRetry(selectorGroups, options) with its first round;
\* the maxAttempts option is 0 when the caller does not pass it
FindElementWithRetry(option) ==
  /\ finder.pc = "idle"
  /\ finder' = tryFind([finder EXCEPT
                          !.option = option,
                          !.maxAttempts = IF option = 0 THEN retryAttempts ELSE option],
                       dom)
  /\ UNCHANGED dom
  /\ FinderOnly

\* the setTimeout(tryFind, delay) of the last round fires
FinderTimerFires ==
  /\ finder.pc = "waiting"
  /\ finder' = tryFind(finder, dom)
  /\ UNCHANGED dom
  /\ FinderOnly

\* the page appends an element to the document before the call or between
\* two rounds
ElementAppended(e) ==
  /\ finder.pc # "resolved"
  /\ Len(dom) < MaxDom
  /\ dom' = Append(dom, e)
  /\ UNCHANGED finder
  /\ FinderOnly

\* the page removes an element from the document
ElementRemoved(i) ==
  /\ finder.pc # "resolved"
  /\ dom' = [k \in 1..(Len(dom) - 1) |-> IF k < i THEN dom[k] ELSE dom[k + 1]]
  /\ UNCHANGED finder
  /\ FinderOnly

(***************************************************************************)
(* Configuration merge: StorageManager.mergeWithDefaults and the popup's   *)
(* mergeWithDefaults / deepMerge                                           *)
(***************************************************************************)
\* A JSON value is a pair <<type, content>>. A string is "" or a non-empty
\* text taken as a whole; an array has one element; the content of an
\* object is a function from its keys to values.
Undefined == <<"undefined", <<>>>>
Null == <<"null", <<>>>>
Str(text) == <<"string", text>>
Bool(b) == <<"boolean", b>>
Arr(elements) == <<"array", elements>>
Obj(fields) == <<"object", fields>>

\* typeof v === 'object' && v !== null && !Array.isArray(v)
IsPlainObject(v) == v[1] = "object"

\* the truthiness of a value
Truthy(v) ==
  CASE v[1] \in {"undefined", "null"} -> FALSE
    [] v[1] = "string" -> v[2] # ""
    [] v[1] = "boolean" -> v[2]
    [] OTHER -> TRUE

\* the own enumerable keys of a value (Object.entries, for...in, spread):
\* the keys of an object, the index of the one element of an array, one index
\* standing for the characters of a non-empty string
OwnKeys(v) ==
  CASE v[1] = "object" -> DOMAIN v[2]
    [] v[1] = "array" -> {"0"}
    [] v[1] = "string" /\ v[2] # "" -> {"0"}
    [] OTHER -> {}

\* v[key] for an own key
OwnValue(v, key) ==
  CASE v[1] = "object" -> v[2][key]
    [] v[1] = "array" -> v[2][1]
    [] OTHER -> v

\* v[key]: undefined when v has no such key
Get(v, key) == IF key \in OwnKeys(v) THEN OwnValue(v, key) ELSE Undefined

\* value || {}
OrEmptyObject(v) == IF Truthy(v) THEN v ELSE Obj(<<>>)

\* StorageManager.getDefaultConfig, two of its sections and the fields in
\* them that show its kinds of value: strings, one of them empty, a boolean,
\* an object and an array
StorageDefaultConfig ==
  Obj([personalInfo |-> Obj([university |-> Str("New York University"),
                             email |-> Str("")]),
       templateSettings |-> Obj([autoSelectTemplate |-> Bool(TRUE),
                                 customTemplates |-> Obj(<<>>),
                                 enabledTemplates |-> Arr(<<Str("general")>>)])])

\* PopupManager.getDefaultConfig, the same two sections
PopupDefaultConfig ==
  Obj([personalInfo |-> Obj([university |-> Str("NYU"),
                             email |-> Str("sa9082@nyu.edu")]),
       templateSettings |-> Obj([autoDetectProfile |-> Bool(TRUE),
                                 companyName |-> Str("")])])

RECURSIVE mergeWithDefaults(_, _)
\* StorageManager.mergeWithDefaults(stored, defaults)
mergeWithDefaults(stored, defaults) ==
  LET defaultKeys == DOMAIN defaults[2]
      storedKeys == OwnKeys(stored)
  IN Obj([key \in defaultKeys \cup storedKeys |->
            IF key \in defaultKeys
            THEN LET value == defaults[2][key]
                 IN IF IsPlainObject(value)
                    THEN mergeWithDefaults(OrEmptyObject(Get(stored, key)), value)
                    ELSE IF Get(stored, key)[1] # "undefined"
                         THEN Get(stored, key)
                         ELSE value
            ELSE OwnValue(stored, key)])

RECURSIVE deepMerge(_, _)
\* PopupManager.deepMerge(target, source)
deepMerge(target, source) ==
  LET targetKeys == OwnKeys(target)
      sourceKeys == OwnKeys(source)
  IN Obj([key \in targetKeys \cup sourceKeys |->
            IF key \in sourceKeys
            THEN LET value == OwnValue(source, key)
                 IN IF Truthy(value) /\ IsPlainObject(value)
                    THEN deepMerge(OrEmptyObject(Get(target, key)), value)
                    ELSE value
            ELSE OwnValue(target, key)])

\* the objects with some of the keys and with values from vals
ObjectsOver(keys, vals) ==
  {Obj(f) : f \in UNION {[K -> vals] : K \in SUBSET keys}}

\* what a stored or imported field may hold
FieldValues == {Null, Str(""), Str("x"), Bool(FALSE), Arr(<<Str("x")>>)}

\* what a stored or imported section may hold: any field value, or an
\* object with some of the fields
PersonalInfoValues ==
  FieldValues \cup ObjectsOver({"university", "email"}, FieldValues)

TemplateSettingsValues ==
  {Null, Str("x"), Obj(<<>>),
   Obj([customTemplates |-> Obj([mine |-> Str("x")])]),
   Obj([customTemplates |-> Null, companyName |-> Str("x")])}

\* The configurations the merges are given: an object (loadConfig and both
\* imports go on only with a truthy value; JSON gives an object) with some of
\* the two sections and possibly a key the defaults do not have.
StoredConfigs ==
  {Obj(f) : f \in UNION
     {[personalInfo : PersonalInfoValues],
      [personalInfo : PersonalInfoValues, templateSettings : TemplateSettingsValues],
      [templateSettings : TemplateSettingsValues],
      [templateSettings : TemplateSettingsValues, version : {Str("x")}],
      {<<>>}}}

\* StorageManager.loadConfig / importConfig: the merge with the defaults
LoadConfig ==
  /\ mergedBy = "none"
  /\ mergedConfig' = mergeWithDefaults(storedConfig, StorageDefaultConfig)
  /\ mergedBy' = "storage"
  /\ UNCHANGED storedConfig
  /\ MergeOnly

\* PopupManager import: mergeWithDefaults(imported)
ImportSettings ==
  /\ mergedBy = "none"
  /\ mergedConfig' = deepMerge(PopupDefaultConfig, storedConfig)
  /\ mergedBy' = "popup"
  /\ UNCHANGED storedConfig
  /\ MergeOnly

(***************************************************************************)
(* TemplateProcessor                                                       *)
(***************************************************************************)
\* A text is a sequence of symbols: a symbol is one of the characters below
\* or a whole run of word characters (\w+), such as a name or a word.
Space == " "
Punctuation == {".", ",", "!", "?"}
NonWord == {"{", "}", "(", ")", "[", "]", "@", Space} \cup Punctuation
IsWord(c) == c \notin NonWord

\* A template is a sequence of tokens: a character outside placeholders, or
\* a placeholder {name}.
Lit(c) == <<"lit", c>>
Var(name) == <<"var", name>>

\* the names the templates of the model use: company has a default and a
\* static fallback, myEmail a default from storage and no fallback, jobTitle
\* neither; constructor is a property every object inherits
PlaceholderNames == {"company", "myEmail", "jobTitle", "constructor"}
InheritedProperties == {"constructor"}

Tokens ==
  {Lit(c) : c \in {Space, ".", "(", ")"}} \cup {Var(n) : n \in PlaceholderNames}

\* the template string of a token sequence
RECURSIVE Render(_)
Render(tokens) ==
  IF tokens = <<>> THEN <<>>
  ELSE LET t == Head(tokens)
       IN (IF t[1] = "lit" THEN <<t[2]>> ELSE <<"{", t[2], "}">>)
          \o Render(Tail(tokens))

\* a value of the variable bag: null or undefined, a string (a text, ''
\* being the empty one), or a function
NoValue == <<"undefined", <<>>>>
Text(symbols) == <<"string", symbols>>
NativeFunction == <<"function", <<"function", Space, "Object", "(", ")", Space,
                                  "{", Space, "[", "native", Space, "code", "]",
                                  Space, "}">>>>

\* value || ''
OrEmptyText(v) == IF v[1] = "string" /\ v[2] # <<>> THEN v ELSE Text(<<>>)

\* getDefaultVariables, the entries for the names of the model
getDefaultVariables(email) ==
  [company |-> Text(<<"your", Space, "company">>),
   myEmail |-> OrEmptyText(email)]

\* { ...getDefaultVariables(), ...variables }
Overlay(defaults, given) ==
  [n \in DOMAIN defaults \cup DOMAIN given |->
     IF n \in DOMAIN given THEN given[n] ELSE defaults[n]]

\* object[name]: an own key, else a property inherited from Object.prototype
Lookup(object, name) ==
  IF Len(name) = 1 /\ name[1] \in DOMAIN object THEN object[name[1]]
  ELSE IF Len(name) = 1 /\ name[1] \in InheritedProperties THEN NativeFunction
  ELSE NoValue

\* getFallbackValue: the fallbacks object, the entries for the names of the model
fallbacks == [company |-> Text(<<"the", Space, "company">>)]

FallbackOrEmpty(variableName, originalMatch) ==
  LET f == Lookup(fallbacks, variableName)
  IN IF f[1] = "undefined" THEN <<>> ELSE f[2]

\* getFallbackValue(variableName, originalMatch)
getFallbackValue(variableName, originalMatch) ==
  LET f == Lookup(fallbacks, variableName)
  IN IF f[1] = "undefined" THEN originalMatch ELSE f[2]

\* the replacer callback of processTemplate: the text put in place of match
Replacer(match, variableName, bag) ==
  LET value == Lookup(bag, variableName)
  IN IF value[1] # "undefined" /\ value # Text(<<>>)
     THEN value[2]
     ELSE getFallbackValue(variableName, match)

\* the length of the run of word symbols of s that starts at position i
RECURSIVE WordRun(_, _)
WordRun(s, i) ==
  IF i > Len(s) THEN 0
  ELSE IF IsWord(s[i]) THEN 1 + WordRun(s, i + 1)
  ELSE 0

\* the length of the match of /\{(\w+)\}/ at position i of s, 0 for none
MatchAt(s, i) ==
  IF s[i] # "{" THEN 0
  ELSE LET r == WordRun(s, i + 1)
       IN IF r >= 1 /\ i + r + 1 <= Len(s)
          THEN (IF s[i + r + 1] = "}" THEN r + 2 ELSE 0)
          ELSE 0

RECURSIVE ReplaceFrom(_, _, _)
\* template.replace(/\{(\w+)\}/g, replacer) from position i on: the matches
\* are found left to right in the template, what is put in is not searched
ReplaceFrom(s, i, bag) ==
  IF i > Len(s) THEN <<>>
  ELSE LET m == MatchAt(s, i)
       IN IF m = 0
          THEN <<s[i]>> \o ReplaceFrom(s, i + 1, bag)
          ELSE Replacer(SubSeq(s, i, i + m - 1), SubSeq(s, i + 1, i + m - 2), bag)
               \o ReplaceFrom(s, i + m, bag)

\* the length of the run of spaces of s that starts at position i
RECURSIVE SpaceRun(_, _)
SpaceRun(s, i) ==
  IF i > Len(s) THEN 0
  ELSE IF s[i] = Space THEN 1 + SpaceRun(s, i + 1)
  ELSE 0

RECURSIVE CollapseSpaces(_, _)
\* replace(/\s+/g, ' ')
CollapseSpaces(s, i) ==
  IF i > Len(s) THEN <<>>
  ELSE LET r == SpaceRun(s, i)
       IN IF r = 0 THEN <<s[i]>> \o CollapseSpaces(s, i + 1)
          ELSE <<Space>> \o CollapseSpaces(s, i + r)

RECURSIVE FixPunctuation(_, _)
\* replace(/\s+([,.!?])/g, '$1')
FixPunctuation(s, i) ==
  IF i > Len(s) THEN <<>>
  ELSE LET r == SpaceRun(s, i)
       IN IF r >= 1 /\ i + r <= Len(s)
          THEN (IF s[i + r] \in Punctuation
                THEN <<s[i + r]>> \o FixPunctuation(s, i + r + 1)
                ELSE <<s[i]>> \o FixPunctuation(s, i + 1))
          ELSE <<s[i]>> \o FixPunctuation(s, i + 1)

RECURSIVE RemoveEmpty(_, _, _, _)
\* replace(/\(\s*\)/g, '') and replace(/\[\s*\]/g, '')
RemoveEmpty(s, i, open, close) ==
  IF i > Len(s) THEN <<>>
  ELSE IF s[i] # open THEN <<s[i]>> \o RemoveEmpty(s, i + 1, open, close)
  ELSE LET r == SpaceRun(s, i + 1)
       IN IF i + r + 1 <= Len(s)
          THEN (IF s[i + r + 1] = close
                THEN RemoveEmpty(s, i + r + 2, open, close)
                ELSE <<s[i]>> \o RemoveEmpty(s, i + 1, open, close))
          ELSE <<s[i]>> \o RemoveEmpty(s, i + 1, open, close)

RECURSIVE Trim(_)
\* trim()
Trim(s) ==
  IF s = <<>> THEN s
  ELSE IF Head(s) = Space THEN Trim(Tail(s))
  ELSE IF s[Len(s)] = Space THEN Trim(SubSeq(s, 1, Len(s) - 1))
  ELSE s

\* cleanupTemplate(template)
cleanupTemplate(s) ==
  LET s1 == CollapseSpaces(s, 1)
      s2 == FixPunctuation(s1, 1)
      s3 == RemoveEmpty(s2, 1, "(", ")")
      s4 == RemoveEmpty(s3, 1, "[", "]")
  IN Trim(s4)

\* processTemplate(template, variables), on the template string
processTemplate(s, given, email) ==
  LET bag == Overlay(getDefaultVariables(email), given)
  IN cleanupTemplate(ReplaceFrom(s, 1, bag))

\* the templates of the model
RECURSIVE TemplatesOfLen(_)
TemplatesOfLen(n) ==
  IF n = 0 THEN {<<>>}
  ELSE {Append(t, k) : t \in TemplatesOfLen(n - 1), k \in Tokens}

Templates == UNION {TemplatesOfLen(n) : n \in 0..MaxTemplateLen}

\* the values a caller may pass for a name: the scraped company, possibly
\* missing or empty; an e-mail address, possibly empty; a job title whose
\* text has the form of a placeholder
ValuesFor(name) ==
  CASE name = "company" -> {NoValue, Text(<<>>), Text(<<"Acme">>)}
    [] name = "myEmail" -> {Text(<<>>), Text(<<"Acme">>)}
    [] OTHER -> {Text(<<"{", "company", "}">>)}

\* the variables a caller passes
VariableBags ==
  UNION {{f \in [K -> UNION {ValuesFor(n) : n \in K}] :
            \A n \in K : f[n] \in ValuesFor(n)} :
           K \in SUBSET {"company", "myEmail", "jobTitle"}}

\* the caller has not yet called processTemplate
NotProcessed == <<"pending">>

ProcessTemplate ==
  /\ processed = NotProcessed
  /\ processed' = processTemplate(Render(template), variables, personalEmail)
  /\ UNCHANGED <<personalEmail, template, variables>>
  /\ TemplateOnly

(***************************************************************************)
(* insertPersonalizedMessage                                               *)
(***************************************************************************)
\* The text of a name element or of a prompt entry is a sequence of
\* characters; a letter stands for a run of letters, Tab for any white space
\* other than the space character (a line break inside the element).
Tab == "\t"
WhiteSpace == {Space, Tab}
NameChars == {"J", "S", Space, Tab}

NameTexts == UNION {[1..k -> NameChars] : k \in 0..MaxNameLen}

RECURSIVE StringTrim(_)
\* String.prototype.trim
StringTrim(s) ==
  IF s = <<>> THEN s
  ELSE IF Head(s) \in WhiteSpace THEN StringTrim(Tail(s))
  ELSE IF s[Len(s)] \in WhiteSpace THEN StringTrim(SubSeq(s, 1, Len(s) - 1))
  ELSE s

WholeName(s) == s

RECURSIVE FirstOfSplit(_)
\* fullName.split(' ')[0]
FirstOfSplit(s) ==
  IF s = <<>> THEN <<>>
  ELSE IF Head(s) = Space THEN <<>>
  ELSE <<Head(s)>> \o FirstOfSplit(Tail(s))

\* what findNameElement resolves with: null, or an element whose trimmed
\* text its validators accepted as a name
NameElementTexts == {s \in NameTexts : StringTrim(s) # <<>>}

\* the text extractNameFromProfilePage returns: trimmed and not empty
ProfileNameTexts == {StringTrim(s) : s \in NameElementTexts}

\* what prompt() returns: null on Cancel, otherwise the entry as typed
PromptResults == {Null} \cup {Text(s) : s \in NameTexts}

\* fallbackName && fallbackName.trim()
EntryGiven(v) == v # Null /\ v[2] # <<>> /\ StringTrim(v[2]) # <<>>

\* no call made yet. handled lists the calls of handleNameDetected as
\* <<firstName, nameDetectionStrategy>>; caught says that the outer catch ran.
IdleInserter ==
  [pc |-> "idle", nameResult |-> NoValue, profileNameResult |-> NoValue,
   prompts |-> 0, fallbackName |-> NoValue, handled |-> <<>>, caught |-> FALSE]

\* insertPersonalizedMessage() up to the await of findNameElement
InsertPersonalizedMessage ==
  /\ inserter.pc = "idle"
  /\ inserter' = [inserter EXCEPT !.pc = "findNameElement"]
  /\ InserterOnly

\* findNameElement resolves with r; with a result handleNameDetected is called
FindNameElementReturns(r) ==
  /\ inserter.pc = "findNameElement"
  /\ inserter' =
       IF r # Null
       THEN [inserter EXCEPT
               !.pc = "handleNameDetected", !.nameResult = r,
               !.handled = Append(@, <<FirstOfSplit(StringTrim(r[2])), "Modal">>)]
       ELSE [inserter EXCEPT !.pc = "extractNameFromProfilePage", !.nameResult = r]
  /\ InserterOnly

\* findNameElement rejects: the outer catch shows the error
FindNameElementThrows ==
  /\ inserter.pc = "findNameElement"
  /\ inserter' = [inserter EXCEPT !.pc = "done", !.caught = TRUE]
  /\ InserterOnly

\* extractNameFromProfilePage returns the text t
ExtractNameReturns(t) ==
  /\ inserter.pc = "extractNameFromProfilePage"
  /\ inserter' = [inserter EXCEPT
                    !.pc = "handleNameDetected", !.profileNameResult = Text(t),
                    !.handled = Append(@, <<FirstOfSplit(t), "Profile Page">>)]
  /\ InserterOnly

\* extractNameFromProfilePage throws: prompt() is shown and returns entry
ExtractNameThrows(entry) ==
  /\ inserter.pc = "extractNameFromProfilePage"
  /\ inserter' =
       IF EntryGiven(entry)
       THEN [inserter EXCEPT
               !.pc = "handleNameDetected", !.profileNameResult = Null,
               !.prompts = @ + 1, !.fallbackName = entry,
               !.handled = Append(@, <<StringTrim(entry[2]), "Manual Input">>)]
       ELSE [inserter EXCEPT
               !.pc = "done", !.profileNameResult = Null,
               !.prompts = @ + 1, !.fallbackName = entry]
  /\ InserterOnly

\* handleNameDetected returns
HandleNameDetectedReturns ==
  /\ inserter.pc = "handleNameDetected"
  /\ inserter' = [inserter EXCEPT !.pc = "done"]
  /\ InserterOnly

\* handleNameDetected throws: the outer catch shows the error
HandleNameDetectedThrows ==
  /\ inserter.pc = "handleNameDetected"
  /\ inserter' = [inserter EXCEPT !.pc = "done", !.caught = TRUE]
  /\ InserterOnly

(***************************************************************************)
(* ResourceManager                                                         *)
(***************************************************************************)
\* A resource is identified by a number: a listenerData object, an observer,
\* a timer id.
ResourceIds == 1..MaxResources

\* addListener(element, event, handler)
AddListener(l) ==
  /\ l \notin listeners \cup attached
  /\ attached' = attached \cup {l}
  /\ listeners' = listeners \cup {l}
  /\ UNCHANGED <<observers, timers, observing, armed, cleanups>>
  /\ ResourceOnly

\* removeListener(listenerData), through the function addListener returned
RemoveListener(l) ==
  /\ l \in listeners
  /\ attached' = attached \ {l}
  /\ listeners' = listeners \ {l}
  /\ UNCHANGED <<observers, timers, observing, armed, cleanups>>
  /\ ResourceOnly

\* addObserver(observer, target, options)
AddObserver(o) ==
  /\ o \notin observers \cup observing
  /\ observing' = observing \cup {o}
  /\ observers' = observers \cup {o}
  /\ UNCHANGED <<listeners, timers, attached, armed, cleanups>>
  /\ ResourceOnly

\* removeObserver(observer), through the function addObserver returned
RemoveObserver(o) ==
  /\ o \in observers
  /\ observing' = observing \ {o}
  /\ observers' = observers \ {o}
  /\ UNCHANGED <<listeners, timers, attached, armed, cleanups>>
  /\ ResourceOnly

\* setTimeout followed by addTimer(timerId)
AddTimer(t) ==
  /\ t \notin timers \cup armed
  /\ armed' = armed \cup {t}
  /\ timers' = timers \cup {t}
  /\ UNCHANGED <<listeners, observers, attached, observing, cleanups>>
  /\ ResourceOnly

\* removeTimer(timerId), through the function addTimer returned
RemoveTimer(t) ==
  /\ t \in timers
  /\ armed' = armed \ {t}
  /\ timers' = timers \ {t}
  /\ UNCHANGED <<listeners, observers, attached, observing, cleanups>>
  /\ ResourceOnly

\* a registered timer fires: its id stays in the timers set
TimerFires(t) ==
  /\ t \in armed
  /\ armed' = armed \ {t}
  /\ UNCHANGED <<listeners, observers, timers, attached, observing, cleanups>>
  /\ ResourceOnly

\* cleanup(): removeListener for every listener, observer.disconnect() for
\* every observer, clearTimeout for every timer
Cleanup ==
  /\ cleanups < MaxCleanups
  /\ cleanups' = cleanups + 1
  /\ attached' = attached \ listeners
  /\ listeners' = {}
  /\ observing' = observing \ observers
  /\ armed' = armed \ timers
  /\ UNCHANGED <<observers, timers>>
  /\ ResourceOnly

(***************************************************************************)
(* TemplateProcessor.selectTemplate                                        *)
(***************************************************************************)
\* A role or a university is a text made of fragments, each a run of
\* characters in the case it is written in.
RoleFragments == {"Engineer", "developer", "RECRUITER", "hiring", "Talent", "sales"}
UniversityFragments == {"NYU", "New York ", "University"}

KeepCase(s) == s

\* String.prototype.toLowerCase
ToLowerCase(s) ==
  [i \in 1..Len(s) |->
     CASE s[i] = "Engineer" -> "engineer"
       [] s[i] = "RECRUITER" -> "recruiter"
       [] s[i] = "Talent" -> "talent"
       [] s[i] = "NYU" -> "nyu"
       [] s[i] = "New York " -> "new york "
       [] s[i] = "University" -> "university"
       [] OTHER -> s[i]]

\* String.prototype.includes
Includes(s, needle) ==
  \E i \in 1..(Len(s) - Len(needle) + 1) : SubSeq(s, i, i + Len(needle) - 1) = needle

\* value && value.toLowerCase().includes(word) for one of the words
HasWord(v, words) ==
  /\ v[1] = "string"
  /\ v[2] # <<>>
  /\ \E w \in words : Includes(ToLowerCase(v[2]), w)

\* the keys of TemplateProcessor.defaultTemplates
DefaultTemplateKeys ==
  {"engineer", "recruiter", "student", "general", "sameCompany", "sameUniversity"}

\* getTemplate(templateName): a template is named by where it comes from and
\* its key
getTemplate(templateName) ==
  IF templateName \in userTemplates THEN <<"user", templateName>>
  ELSE IF templateName \in DefaultTemplateKeys THEN <<"default", templateName>>
  ELSE <<"default", "general">>

\* selectTemplate(profileData)
selectTemplate(p) ==
  IF HasWord(p.role, {<<"engineer">>, <<"developer">>})
  THEN getTemplate("engineer")
  ELSE IF HasWord(p.role, {<<"recruiter">>, <<"hiring">>, <<"talent">>})
  THEN getTemplate("recruiter")
  ELSE IF HasWord(p.university, {<<"nyu">>, <<"new york ", "university">>})
  THEN getTemplate("sameUniversity")
  ELSE IF p.company[2] # <<>> /\ p.role[1] = "string" /\ p.role[2] # <<>>
  THEN getTemplate("general")
  ELSE getTemplate("general")

\* the profiles handleNameDetected builds: role and company as extracted
\* (undefined when the extraction gave none), university a string
Roles ==
  {NoValue} \cup {Text(t) : t \in UNION {[1..k -> RoleFragments] : k \in 0..MaxRoleLen}}

Universities ==
  {Text(t) : t \in UNION {[1..k -> UniversityFragments] : k \in 0..MaxUniversityLen}}

ProfileDatas ==
  [role : Roles, university : Universities,
   company : {Text(<<>>), Text(<<"Acme">>)}]

NoProfile == [role |-> NoValue, university |-> Text(<<>>), company |-> Text(<<>>)]

\* selectTemplate has not been called
NotSelected == <<"pending", "none">>

\* templateProcessor.selectTemplate(profileData)
SelectTemplate ==
  /\ selected = NotSelected
  /\ selected' = selectTemplate(profileData)
  /\ UNCHANGED <<profileData, userTemplates>>
  /\ SelectOnly

(***************************************************************************)
(* OperationQueue.calculateRetryDelay, called on its own                   *)
(***************************************************************************)
\* calculateRetryDelay(attempt), Math.random() returning (jit/JitterSteps + 1)/2
CalculateRetryDelay(attempt, jit) ==
  /\ delayAttempt' = attempt
  /\ delayRandom' = jit + JitterSteps
  /\ retryDelay' = calculateRetryDelay(attempt, jit)
  /\ DelayOnly

(***************************************************************************)
(* content.js: the click listener, the toggle button and the two waits     *)
(* that lead from a Connect click to the message in the textarea           *)
(***************************************************************************)
\* maxAttempts of waitForConnectionModal and of waitForTextareaAndInsert
modalMaxAttempts == 50
textareaMaxAttempts == 30

\* the closure of a wait as the call leaves it: the observer observing, no
\* attempt counted, the timer of the 'immediate check' pending. attempts is
\* read by the observer callback only: it is written 0 once the observer is
\* disconnected.
NewWait ==
  [observing |-> TRUE, attempts |-> 0, timer |-> TRUE, gaveUp |-> FALSE, proceeded |-> 0]

\* The state the handlers work on
PageWorld ==
  [modalWaits |-> modalWaits, fillCalls |-> fillCalls, textareaWaits |-> textareaWaits,
   insertsRunning |-> insertsRunning]

\* fillConnectionMessage() is called by wait n of the modal: it awaits
\* elementFinder.findAddNoteButton()
FillConnectionMessage(w, n) ==
  [w EXCEPT !.modalWaits[n].observing = FALSE,
            !.modalWaits[n].attempts = 0,
            !.modalWaits[n].proceeded = @ + 1,
            !.fillCalls = Append(@, "finding")]

\* insertPersonalizedMessage() is called by wait n of the textarea
InsertionCalled(w, n) ==
  [w EXCEPT !.textareaWaits[n].observing = FALSE,
            !.textareaWaits[n].attempts = 0,
            !.textareaWaits[n].proceeded = @ + 1,
            !.insertsRunning = @ + 1]

\* the MutationObserver callback of waitForConnectionModal, call n
ModalObserverCallback(w, n, exists) ==
  IF exists THEN FillConnectionMessage(w, n)
  ELSE IF w.modalWaits[n].attempts + 1 >= modalMaxAttempts
       THEN [w EXCEPT !.modalWaits[n].attempts = 0,
                      !.modalWaits[n].observing = FALSE,
                      !.modalWaits[n].gaveUp = TRUE]
       ELSE [w EXCEPT !.modalWaits[n].attempts = @ + 1]

\* the MutationObserver callback of waitForTextareaAndInsert, call n
TextareaObserverCallback(w, n, exists) ==
  IF exists THEN InsertionCalled(w, n)
  ELSE IF w.textareaWaits[n].attempts + 1 >= textareaMaxAttempts
       THEN [w EXCEPT !.textareaWaits[n].attempts = 0,
                      !.textareaWaits[n].observing = FALSE,
                      !.textareaWaits[n].gaveUp = TRUE]
       ELSE [w EXCEPT !.textareaWaits[n].attempts = @ + 1]

\* the callbacks of all observers that are observing, one after the other
RECURSIVE ModalCallbacksFrom(_, _, _)
ModalCallbacksFrom(w, n, exists) ==
  IF n > Len(w.modalWaits) THEN w
  ELSE ModalCallbacksFrom(
         IF w.modalWaits[n].observing THEN ModalObserverCallback(w, n, exists) ELSE w,
         n + 1, exists)

RECURSIVE TextareaCallbacksFrom(_, _, _)
TextareaCallbacksFrom(w, n, exists) ==
  IF n > Len(w.textareaWaits) THEN w
  ELSE TextareaCallbacksFrom(
         IF w.textareaWaits[n].observing THEN TextareaObserverCallback(w, n, exists) ELSE w,
         n + 1, exists)

PageApply(w) ==
  /\ modalWaits' = w.modalWaits
  /\ fillCalls' = w.fillCalls
  /\ textareaWaits' = w.textareaWaits
  /\ insertsRunning' = w.insertsRunning

\* a click on a Connect button; already tells that LinkedIn has put the
\* modal into the document before the listener of the script runs
ConnectClicked(already) ==
  /\ connectClicks < MaxPageClicks
  /\ connectClicks' = connectClicks + 1
  /\ enabledClicks' = IF extensionEnabled THEN enabledClicks + 1 ELSE enabledClicks
  /\ modalExists' = (modalExists \/ already)
  /\ IF extensionEnabled
     THEN /\ flowsStarted' = flowsStarted + 1
          /\ modalWaits' = Append(modalWaits, NewWait)
     ELSE UNCHANGED <<flowsStarted, modalWaits>>
  /\ UNCHANGED <<extensionEnabled, documentHidden, textareaExists, fillCalls,
                 textareaWaits, insertsRunning, insertedWhileDisabled>>
  /\ PageOnly

\* a click on the toggle button
ToggleClicked ==
  /\ extensionEnabled' = ~extensionEnabled
  /\ UNCHANGED <<documentHidden, connectClicks, enabledClicks, flowsStarted, modalExists,
                 textareaExists, modalWaits, fillCalls, textareaWaits, insertsRunning,
                 insertedWhileDisabled>>
  /\ PageOnly

\* LinkedIn changes the document: it shows the modal after a click, shows
\* the textarea after the click on 'Add a note', or changes something else
\* under document.body. The observers that are observing get their callback.
DomMutates(kind) ==
  /\ \/ /\ kind = "modal"
        /\ connectClicks > 0 /\ ~modalExists
     \/ /\ kind = "textarea"
        /\ \E f \in 1..Len(fillCalls) : fillCalls[f] = "clicked"
        /\ ~textareaExists
     \/ /\ kind = "other"
        /\ \/ \E n \in 1..Len(modalWaits) : modalWaits[n].observing
           \/ \E n \in 1..Len(textareaWaits) : textareaWaits[n].observing
  /\ modalExists' = (modalExists \/ kind = "modal")
  /\ textareaExists' = (textareaExists \/ kind = "textarea")
  /\ PageApply(TextareaCallbacksFrom(ModalCallbacksFrom(PageWorld, 1, modalExists'),
                                     1, textareaExists'))
  /\ UNCHANGED <<extensionEnabled, documentHidden, connectClicks, enabledClicks,
                 flowsStarted, insertedWhileDisabled>>
  /\ PageOnly

\* the timer of waitForConnectionModal fires, 100 ms after the call
ModalCheckFires(n) ==
  /\ n \in 1..Len(modalWaits)
  /\ modalWaits[n].timer
  /\ LET fired == [PageWorld EXCEPT !.modalWaits[n].timer = FALSE]
     IN PageApply(IF modalExists THEN FillConnectionMessage(fired, n) ELSE fired)
  /\ UNCHANGED <<extensionEnabled, documentHidden, connectClicks, enabledClicks,
                 flowsStarted, modalExists, textareaExists, insertedWhileDisabled>>
  /\ PageOnly

\* findAddNoteButton returns to fillConnectionMessage: with the button, which
\* is clicked and waitForTextareaAndInsert called, or with null
AddNoteButtonSearched(f, found) ==
  /\ f \in 1..Len(fillCalls)
  /\ fillCalls[f] = "finding"
  /\ fillCalls' = [fillCalls EXCEPT ![f] = IF found THEN "clicked" ELSE "notFound"]
  /\ textareaWaits' = IF found THEN Append(textareaWaits, NewWait) ELSE textareaWaits
  /\ UNCHANGED <<extensionEnabled, documentHidden, connectClicks, enabledClicks,
                 flowsStarted, modalExists, textareaExists, modalWaits, insertsRunning,
                 insertedWhileDisabled>>
  /\ PageOnly

\* the timer of waitForTextareaAndInsert fires, 50 ms after the call
TextareaCheckFires(n) ==
  /\ n \in 1..Len(textareaWaits)
  /\ textareaWaits[n].timer
  /\ LET fired == [PageWorld EXCEPT !.textareaWaits[n].timer = FALSE]
     IN PageApply(IF textareaExists THEN InsertionCalled(fired, n) ELSE fired)
  /\ UNCHANGED <<extensionEnabled, documentHidden, connectClicks, enabledClicks,
                 flowsStarted, modalExists, textareaExists, insertedWhileDisabled>>
  /\ PageOnly

\* an insertPersonalizedMessage call comes to its end: it has written the
\* message into the textarea, or it has given up (no name, no textarea)
InsertCompletes(wrote) ==
  /\ insertsRunning > 0
  /\ insertsRunning' = insertsRunning - 1
  /\ insertedWhileDisabled' = (insertedWhileDisabled \/ (wrote /\ ~extensionEnabled))
  /\ UNCHANGED <<extensionEnabled, documentHidden, connectClicks, enabledClicks,
                 flowsStarted, modalExists, textareaExists, modalWaits, fillCalls,
                 textareaWaits>>
  /\ PageOnly

(***************************************************************************)
(* The v3.1 script on a page: its listeners are registered with the        *)
(* ResourceManager, whose cleanup runs when the tab is hidden              *)
(***************************************************************************)
\* the listenerData of resourceManager.addListener(document, 'click',
\* connectButtonHandler) and of the click listener of the toggle button
ClickListener == 1
ToggleListener == 2

\* visibilitychange with document.hidden true: the listener the
\* ResourceManager constructor has added calls cleanup()
TabHidden ==
  /\ ~documentHidden
  /\ cleanups < MaxCleanups
  /\ documentHidden' = TRUE
  /\ cleanups' = cleanups + 1
  /\ attached' = attached \ listeners
  /\ listeners' = {}
  /\ observing' = observing \ observers
  /\ armed' = armed \ timers
  /\ UNCHANGED <<observers, timers>>
  /\ UNCHANGED <<extensionEnabled, connectClicks, enabledClicks, flowsStarted, modalExists,
                 textareaExists, modalWaits, fillCalls, textareaWaits, insertsRunning,
                 insertedWhileDisabled>>
  /\ LifecycleOnly

\* visibilitychange with document.hidden false: the listener does nothing
TabShown ==
  /\ documentHidden
  /\ documentHidden' = FALSE
  /\ UNCHANGED rvars
  /\ UNCHANGED <<extensionEnabled, connectClicks, enabledClicks, flowsStarted, modalExists,
                 textareaExists, modalWaits, fillCalls, textareaWaits, insertsRunning,
                 insertedWhileDisabled>>
  /\ LifecycleOnly

\* a click on a Connect button of the visible page: connectButtonHandler
\* runs if it is still attached to the document, and starts a flow by
\* enqueueing connect_button_click unless extensionEnabled is false
ConnectClickedWithManager ==
  /\ ~documentHidden
  /\ connectClicks < MaxPageClicks
  /\ connectClicks' = connectClicks + 1
  /\ enabledClicks' = IF extensionEnabled THEN enabledClicks + 1 ELSE enabledClicks
  /\ flowsStarted' = IF ClickListener \in attached /\ extensionEnabled
                     THEN flowsStarted + 1
                     ELSE flowsStarted
  /\ UNCHANGED rvars
  /\ UNCHANGED <<extensionEnabled, documentHidden, modalExists, textareaExists, modalWaits,
                 fillCalls, textareaWaits, insertsRunning, insertedWhileDisabled>>
  /\ LifecycleOnly

\* a click on the toggle button of the visible page
ToggleClickedWithManager ==
  /\ ~documentHidden
  /\ extensionEnabled' = IF ToggleListener \in attached THEN ~extensionEnabled
                         ELSE extensionEnabled
  /\ UNCHANGED rvars
  /\ UNCHANGED <<documentHidden, connectClicks, enabledClicks, flowsStarted, modalExists,
                 textareaExists, modalWaits, fillCalls, textareaWaits, insertsRunning,
                 insertedWhileDisabled>>
  /\ LifecycleOnly

(***************************************************************************)
(* ResilientElementFinder                                                  *)
(***************************************************************************)
\* The model follows the element type addNoteButton, whose cache key is
\* addNoteButton_default, and the first selector of each of its strategies:
\*   primary     button[aria-label="Add a note"]
\*   semantic    button:contains("Add a note")
\*   structural  .artdeco-modal button[aria-label*="note"]
\*   fallback    button, with the strategy validator
\*               el.textContent?.trim() === 'Add a note'
\* A selector is named by the strategy it belongs to. The strategies in the
\* order buildStrategies declares them:
StrategyTypes == <<"primary", "semantic", "structural", "fallback">>

StrategyNames == {StrategyTypes[i] : i \in 1..Len(StrategyTypes)}

\* the place of a strategy in the declaration
DeclaredAt(t) == CHOOSE i \in 1..Len(StrategyTypes) : StrategyTypes[i] = t

\* the buttons of a connection modal: their aria-label and their text
Buttons ==
  {[ariaLabel |-> "Add a note", textContent |-> "Add a note"],
   [ariaLabel |-> "", textContent |-> "Add a note"],
   [ariaLabel |-> "", textContent |-> "Add a note to your invitation"],
   [ariaLabel |-> "Edit note", textContent |-> "Send"]}

\* String.includes('Add a note') on the labels and texts above
IncludesAddANote(str) == str \in {"Add a note", "Add a note to your invitation"}

\* String.includes('note'), as the attribute selector [aria-label*="note"]
IncludesNote(str) == str \in {"Add a note", "Edit note", "Add a note to your invitation"}

\* the documents: up to MaxButtons buttons
Pages == UNION {[1..n -> Buttons] : n \in 0..MaxButtons}

\* null in place of an element, and in place of a findElement result
NoButton == [ariaLabel |-> "null", textContent |-> "null"]
NotFound == [element |-> NoButton, selector |-> "none", strategy |-> "none"]

\* no entry in the selectorCache
NoCached == [selector |-> "none", strategy |-> "none", hits |-> 0]

\* the validator option: the default () => true, or the one of
\* LinkedInElementFinder.findAddNoteButton
Validators == {"default", "findAddNoteButton"}

validator(v, el) ==
  IF v = "default" THEN TRUE
  ELSE \/ IncludesAddANote(el.textContent)
       \/ IncludesAddANote(el.ariaLabel)
       \/ el.textContent = "Add a note"

\* the validator of a strategy: only the fallback strategy has one
strategyValidator(t, el) == t = "fallback" => el.textContent = "Add a note"

\* whether a button matches a selector
SelectorMatches(sel, el) ==
  CASE sel = "primary" -> el.ariaLabel = "Add a note"
    [] sel = "semantic" -> IncludesAddANote(el.textContent)
    [] sel = "structural" -> IncludesNote(el.ariaLabel)
    [] OTHER -> TRUE

\* the first button of the document that matches the selector, or NoButton:
\* document.querySelector, and findByContainsText for a :contains selector
findElementWithCustomSelectors(sel, pg) ==
  LET hits == {i \in 1..Len(pg) : SelectorMatches(sel, pg[i])}
  IN IF hits = {} THEN NoButton
     ELSE pg[CHOOSE i \in hits : \A j \in hits : i <= j]

\* document.querySelector throws on a :contains selector
QuerySelectorThrows(sel) == sel = "semantic"

\* executeStrategy
executeStrategy(t, v, pg) ==
  LET element == findElementWithCustomSelectors(t, pg)
  IN IF /\ element # NoButton
        /\ validator(v, element)
        /\ strategyValidator(t, element)
     THEN [element |-> element, selector |-> t, strategy |-> t]
     ELSE NotFound

\* tryCachedSelector: the result, or NotFound
tryCachedSelector(cached, v, pg) ==
  IF cached = NoCached \/ QuerySelectorThrows(cached.selector) THEN NotFound
  ELSE LET element == findElementWithCustomSelectors(cached.selector, pg)
       IN IF element # NoButton /\ validator(v, element)
          THEN [element |-> element, selector |-> cached.selector, strategy |-> "cached"]
          ELSE NotFound

\* the success rate of a strategy as the fraction num/den: success/attempts,
\* 0.5 before the first attempt
RateNum(stats, t) == IF stats[t].attempts > 0 THEN stats[t].success ELSE 1
RateDen(stats, t) == IF stats[t].attempts > 0 THEN stats[t].attempts ELSE 2

\* the comparator turned round: aRate - bRate
CompareRatesAscending(stats, a, b) ==
  RateNum(stats, a) * RateDen(stats, b) - RateNum(stats, b) * RateDen(stats, a)

\* the sign of the sort comparator bRate - aRate
CompareRates(stats, a, b) ==
  RateNum(stats, b) * RateDen(stats, a) - RateNum(stats, a) * RateDen(stats, b)

\* Array.prototype.sort with that comparator: a stable insertion sort
RECURSIVE InsertByRate(_, _, _)
InsertByRate(stats, sorted, t) ==
  IF sorted = <<>> THEN <<t>>
  ELSE LET last == sorted[Len(sorted)]
       IN IF CompareRates(stats, last, t) <= 0 THEN Append(sorted, t)
          ELSE Append(InsertByRate(stats, SubSeq(sorted, 1, Len(sorted) - 1), t), last)

RECURSIVE SortByRate(_, _)
SortByRate(stats, n) ==
  IF n = 0 THEN <<>> ELSE InsertByRate(stats, SortByRate(stats, n - 1), StrategyTypes[n])

\* getOrderedStrategies
getOrderedStrategies(stats) == SortByRate(stats, Len(StrategyTypes))

\* the for loop of tryStrategies from the i-th strategy on: the statistics it
\* leaves, its result and the strategies it has tried
RECURSIVE tryStrategies(_, _, _, _, _, _)
tryStrategies(strategies, i, stats, v, pg, tried) ==
  IF i > Len(strategies) THEN [stats |-> stats, result |-> NotFound, tried |-> tried]
  ELSE LET t == strategies[i]
           counted == [stats EXCEPT ![t].attempts = @ + 1]
           result == executeStrategy(t, v, pg)
       IN IF result # NotFound
          THEN [stats |-> [counted EXCEPT ![t].success = @ + 1], result |-> result,
                tried |-> Append(tried, t)]
          ELSE tryStrategies(strategies, i + 1, counted, v, pg, Append(tried, t))

\* cacheSuccessfulSelector
cacheSuccessfulSelector(result) ==
  [selector |-> result.selector, strategy |-> result.strategy, hits |-> 1]

\* a call whose promise is resolved: its closure is gone, its result stays
Resolved(c, result, by) ==
  [c EXCEPT !.strategies = <<>>, !.attempts = 0, !.result = result,
            !.foundBy = by, !.state = "resolved"]

\* what a round of tryStrategies leaves of a call: resolved with the element,
\* waiting for the retry timer, or resolved with null
AfterRound(c, round, late) ==
  IF round.result # NotFound THEN Resolved(c, round.result, round.result.strategy)
  ELSE IF c.attempts + 1 < MaxRounds /\ ~late
       THEN [c EXCEPT !.attempts = @ + 1, !.state = "retrying"]
       ELSE Resolved(c, NotFound, "none")

\* findElement({type: 'addNoteButton'}, {validator: v}): the cached selector
\* first, then the strategies in the order of getOrderedStrategies
FindElement(v) ==
  /\ Len(findCalls) < MaxFindCalls
  /\ LET cachedResult == tryCachedSelector(selectorCache, v, page)
         strategies == getOrderedStrategies(strategyStats)
         round == tryStrategies(strategies, 1, strategyStats, v, page, <<>>)
         c == [validator |-> v, strategies |-> strategies, attempts |-> 0,
               result |-> NotFound, foundBy |-> "none", state |-> "retrying"]
     IN IF cachedResult # NotFound
        THEN /\ selectorCache' = [selectorCache EXCEPT !.hits = @ + 1]
             /\ findCalls' = Append(findCalls,
                                    Resolved(c, cachedResult, selectorCache.strategy))
             /\ lastTried' = <<>>
             /\ UNCHANGED strategyStats
        ELSE /\ selectorCache' = IF round.result # NotFound
                                 THEN cacheSuccessfulSelector(round.result)
                                 ELSE NoCached
             /\ strategyStats' = round.stats
             /\ findCalls' = Append(findCalls, AfterRound(c, round, FALSE))
             /\ lastTried' = round.tried
  /\ UNCHANGED page
  /\ ResilientOnly

\* the retry timer of a findElement call fires: tryStrategies once more; late
\* tells that the timeout option has elapsed by the end of the round
TryStrategiesAgain(n, late) ==
  /\ n \in 1..Len(findCalls)
  /\ findCalls[n].state = "retrying"
  /\ LET c == findCalls[n]
         round == tryStrategies(c.strategies, 1, strategyStats, c.validator, page, <<>>)
     IN /\ strategyStats' = round.stats
        /\ selectorCache' = IF round.result # NotFound
                            THEN cacheSuccessfulSelector(round.result)
                            ELSE selectorCache
        /\ findCalls' = [findCalls EXCEPT ![n] = AfterRound(c, round, late)]
        /\ lastTried' = round.tried
  /\ UNCHANGED page
  /\ ResilientOnly

\* ResilientElementFinder.reset
ResetFinder ==
  /\ selectorCache' = NoCached
  /\ strategyStats' = [t \in StrategyNames |-> [success |-> 0, attempts |-> 0]]
  /\ UNCHANGED <<page, findCalls, lastTried>>
  /\ ResilientOnly

\* LinkedIn renders another modal
PageChanges(pg) ==
  /\ pg # page
  /\ page' = pg
  /\ UNCHANGED <<selectorCache, strategyStats, findCalls, lastTried>>
  /\ ResilientOnly

(***************************************************************************)
(* StorageManager over chrome.storage.sync, and the custom templates of    *)
(* the TemplateProcessor                                                   *)
(***************************************************************************)
\* { ...a, ...b }
Spread(a, b) ==
  Obj([key \in OwnKeys(a) \cup OwnKeys(b) |->
         IF key \in OwnKeys(b) THEN OwnValue(b, key) ELSE OwnValue(a, key)])

\* obj[key] = value on an object
SetField(obj, key, value) ==
  Obj([k \in DOMAIN obj[2] \cup {key} |-> IF k = key THEN value ELSE obj[2][k]])

\* delete obj[key]
DeleteField(obj, key) == Obj([k \in DOMAIN obj[2] \ {key} |-> obj[2][k]])

\* the rejection of chrome.storage.sync.get
ReadError == <<"error", <<>>>>

\* the name of the custom template the calls add and remove, and its entry
CustomName == "mine"
CustomTemplate == Obj([name |-> Str("mine"), template |-> Str("x"), custom |-> Bool(TRUE)])

\* The calls that are followed: loadConfig, updateSection on two sections,
\* TemplateProcessor.addCustomTemplate and removeCustomTemplate, which call
\* the methods of the same name of the StorageManager, and resetToDefaults
StorageOps ==
  {[op |-> "loadConfig", section |-> "none", data |-> Undefined],
   [op |-> "updateSection", section |-> "personalInfo", data |-> Obj([email |-> Str("x")])],
   [op |-> "updateSection", section |-> "templateSettings",
    data |-> Obj([autoSelectTemplate |-> Bool(FALSE)])],
   [op |-> "addCustomTemplate", section |-> "none", data |-> Undefined],
   [op |-> "removeCustomTemplate", section |-> "none", data |-> Undefined],
   [op |-> "resetToDefaults", section |-> "none", data |-> Undefined]}

\* The state the calls work on. chrome.storage.sync serves its requests in
\* the order they are made: a get returns the value as it is when the get is
\* made, a set writes a copy of the value as it is when the set is made, and
\* the promise of either is settled later.
StorageWorld(calls, storage, dflt, cache) ==
  [calls |-> calls, storage |-> storage, dflt |-> dflt, cache |-> cache]

\* the number of the next request to chrome.storage.sync
NextRequest(w) ==
  LET made == {w.calls[n].request : n \in 1..Len(w.calls)}
  IN IF made = {} THEN 1 ELSE 1 + CHOOSE r \in made : \A q \in made : q <= r

\* the value of the variable config of a call: defaultConfig itself when
\* loadConfig has returned this.defaultConfig, the merged object otherwise
ConfigOf(c, dflt) == IF c.isDefault THEN dflt ELSE c.config

\* saveConfig(config) is called by call n: chrome.storage.sync.set, which
\* writes when ok holds
SaveConfigCalled(w, n, isDefault, config, ok) ==
  [w EXCEPT !.storage = IF ok THEN config ELSE @,
            !.dflt = IF isDefault THEN config ELSE @,
            !.calls[n].isDefault = isDefault,
            !.calls[n].config = IF isDefault THEN Undefined ELSE config,
            !.calls[n].pc = "save",
            !.calls[n].request = NextRequest(w),
            !.calls[n].written = ok]

\* a call returns
Returns(w, n, value) ==
  [w EXCEPT !.calls[n].pc = "done", !.calls[n].returned = value]

\* loadConfig has returned config to call n, which goes on to its next await
\* or to its end
AfterLoadConfig(w, n, isDefault, config, ok) ==
  LET c == w.calls[n]
      templateSettings == Get(config, "templateSettings")
      customTemplates == Get(templateSettings, "customTemplates")
  IN CASE c.op = "loadConfig" ->
            Returns([w EXCEPT !.calls[n].isDefault = isDefault], n, config)
       [] c.op = "updateSection" ->
            SaveConfigCalled(w, n, isDefault,
              SetField(config, c.section, Spread(Get(config, c.section), c.data)), ok)
       [] c.op = "addCustomTemplate" ->
            IF ~IsPlainObject(templateSettings)
            THEN \* a TypeError, caught: false, and the local cache is reverted
                 Returns([w EXCEPT !.cache = @ \ {CustomName}], n, Bool(FALSE))
            ELSE SaveConfigCalled(w, n, isDefault,
                   SetField(config, "templateSettings",
                     SetField(templateSettings, "customTemplates",
                       SetField(IF Truthy(customTemplates) THEN customTemplates
                                ELSE Obj(<<>>),
                                CustomName, CustomTemplate))), ok)
       [] c.op = "removeCustomTemplate" ->
            IF ~IsPlainObject(templateSettings)
            THEN Returns(w, n, Bool(FALSE))
            ELSE IF Truthy(customTemplates) /\ Truthy(Get(customTemplates, CustomName))
                 THEN SaveConfigCalled(w, n, isDefault,
                        SetField(config, "templateSettings",
                          SetField(templateSettings, "customTemplates",
                            DeleteField(customTemplates, CustomName))), ok)
                 ELSE Returns(w, n, Bool(FALSE))

\* the promise call n awaits is settled, the promises of earlier requests
\* being settled before; ok tells whether the next request
\* the call makes to chrome.storage.sync succeeds
StorageContinues(w, n, ok) ==
  LET c == w.calls[n]
  IN CASE c.pc = "get" ->
            IF c.got = ReadError
            THEN AfterLoadConfig(w, n, TRUE, w.dflt, ok)
            ELSE IF Truthy(c.got)
                 THEN AfterLoadConfig(w, n, FALSE, mergeWithDefaults(c.got, w.dflt), ok)
                 ELSE \* first run: await this.saveConfig(this.defaultConfig)
                      [w EXCEPT !.storage = IF ok THEN w.dflt ELSE @,
                                !.calls[n].request = NextRequest(w),
                                !.calls[n].pc = "firstSave"]
       [] c.pc = "firstSave" -> AfterLoadConfig(w, n, TRUE, w.dflt, ok)
       [] c.pc = "save" ->
            CASE c.op \in {"updateSection", "resetToDefaults"} ->
                   Returns(w, n, ConfigOf(c, w.dflt))
              [] c.op = "addCustomTemplate" -> Returns(w, n, Bool(TRUE))
              [] c.op = "removeCustomTemplate" ->
                   Returns([w EXCEPT !.cache = @ \ {CustomName}], n, Bool(TRUE))

\* a call is made: resetToDefaults saves at once, the others load first; ok
\* tells whether that request to chrome.storage.sync succeeds
StorageCalled(w, o, ok) ==
  LET n == Len(w.calls) + 1
      c == [op |-> o.op, section |-> o.section, data |-> o.data, pc |-> "get",
            request |-> NextRequest(w),
            got |-> IF ok THEN w.storage ELSE ReadError,
            isDefault |-> FALSE, config |-> Undefined, written |-> FALSE,
            hadTemplate |-> CustomName \in w.cache, returned |-> Undefined]
      called == [w EXCEPT !.calls = Append(@, c)]
  IN CASE o.op = "resetToDefaults" -> SaveConfigCalled(called, n, TRUE, w.dflt, ok)
       [] o.op = "addCustomTemplate" -> [called EXCEPT !.cache = @ \cup {CustomName}]
       [] OTHER -> called

StorageApply(w) ==
  /\ storageCalls' = w.calls
  /\ syncStorage' = w.storage
  /\ defaultConfig' = w.dflt
  /\ userTemplates' = w.cache
  /\ StorageOnly

StorageCall(o, ok) ==
  /\ Len(storageCalls) < MaxStorageCalls
  /\ StorageApply(StorageCalled(
       StorageWorld(storageCalls, syncStorage, defaultConfig, userTemplates), o, ok))

StorageSettles(n, ok) ==
  /\ n \in 1..Len(storageCalls)
  /\ storageCalls[n].pc # "done"
  /\ \A m \in 1..Len(storageCalls) :
       storageCalls[m].pc # "done" => storageCalls[n].request <= storageCalls[m].request
  /\ StorageApply(StorageContinues(
       StorageWorld(storageCalls, syncStorage, defaultConfig, userTemplates), n, ok))

(***************************************************************************)
(* The v4 script: handleConnection and the polls it awaits                 *)
(***************************************************************************)
\* maxAttempts of waitForConnectionModal, of findAddNoteButton and of
\* waitForTextarea
fastModalMaxAttempts == 20
fastButtonMaxAttempts == 5
fastTextareaMaxAttempts == 15

\* the buttons a document of the v4 script can hold for the selectors of
\* findAddNoteButton: none, or one of Buttons
FastButtons == Buttons \cup {NoButton}

\* the documents: dialog.modal stands for an element .artdeco-modal
Dialogs == [modal : BOOLEAN, button : FastButtons, textarea : BOOLEAN]

\* the steps a call has made, in their order, when it has made them all
AllSteps == <<"modalDetected", "buttonFound", "buttonClicked", "textareaDetected", "written">>

\* a handleConnection call that has not polled yet
NewHandleCall == [pc |-> "modal", attempts |-> 0, events |-> <<>>, errors |-> 0, successes |-> 0]

\* one more poll than the code makes
PollOnceMore(attempts, maxAttempts) == attempts <= maxAttempts

\* if (attempts < maxAttempts) setTimeout(...)
PollAgain(attempts, maxAttempts) == attempts < maxAttempts

\* the selectors of findAddNoteButton on the document, with its validator:
\* no element of the model has data-test-modal-add-note-btn, and
\* button:contains("Add a note") makes querySelector throw
FindsAddNoteButton(d) ==
  /\ d.button # NoButton
  /\ \/ d.button.ariaLabel = "Add a note"
     \/ d.modal /\ IncludesNote(d.button.ariaLabel)
  /\ \/ IncludesAddANote(d.button.textContent)
     \/ IncludesAddANote(d.button.ariaLabel)

\* the catch block of handleConnection. The attempts of a call that has
\* ended are read no more: they are written 0
HandleCatch(w) ==
  [w EXCEPT !.c.pc = "failed", !.c.attempts = 0, !.c.errors = @ + 1]

\* steps 5 and 6 after loadConfig has returned: the message is written
InsertMessage(w) ==
  [w EXCEPT !.c.pc = "done", !.c.attempts = 0,
            !.c.events = Append(@, "written"),
            !.c.successes = @ + 1,
            !.d.value = "message",
            !.cfg = TRUE]

\* steps 4 and 5: extractProfileData awaits nothing; loadConfig returns the
\* cached config at once, or awaits chrome.storage.sync.get
AfterTextarea(w) ==
  IF w.cfg THEN InsertMessage(w)
  ELSE [w EXCEPT !.c.pc = "loadConfig", !.c.attempts = 0]

\* checkTextarea
CheckTextarea(w) ==
  LET attempts == w.c.attempts + 1 IN
  IF w.d.textarea
  THEN AfterTextarea([w EXCEPT !.c.events = Append(@, "textareaDetected")])
  ELSE IF PollAgain(attempts, fastTextareaMaxAttempts)
       THEN [w EXCEPT !.c.pc = "textarea", !.c.attempts = attempts]
       ELSE HandleCatch(w)

\* tryFind of findAddNoteButton, then step 2 and the first checkTextarea;
\* opens: the page shows the textarea while it handles the click
TryFind(w, opens) ==
  LET attempts == w.c.attempts + 1 IN
  IF FindsAddNoteButton(w.d)
  THEN CheckTextarea([w EXCEPT !.c.attempts = 0,
                               !.c.events = @ \o <<"buttonFound", "buttonClicked">>,
                               !.d.textarea = IF opens THEN TRUE ELSE @])
  ELSE IF PollAgain(attempts, fastButtonMaxAttempts)
       THEN [w EXCEPT !.c.pc = "button", !.c.attempts = attempts]
       ELSE HandleCatch(w)

\* checkModal, then the first tryFind
CheckModal(w, opens) ==
  LET attempts == w.c.attempts + 1 IN
  IF w.d.modal
  THEN TryFind([w EXCEPT !.c.attempts = 0, !.c.events = Append(@, "modalDetected")], opens)
  ELSE IF PollAgain(attempts, fastModalMaxAttempts)
       THEN [w EXCEPT !.c.pc = "modal", !.c.attempts = attempts]
       ELSE HandleCatch(w)

HandleWorld(c) == [c |-> c, d |-> dialog, cfg |-> cachedConfig]

\* the call n goes on as w says
HandleApply(n, w) ==
  /\ handleCalls' = IF n > Len(handleCalls) THEN Append(handleCalls, w.c)
                    ELSE [handleCalls EXCEPT ![n] = w.c]
  /\ dialog' = w.d
  /\ cachedConfig' = w.cfg
  /\ HandleOnly

\* the document click listener of the v4 script, on a Connect button
HandleConnection(opens) ==
  /\ extensionEnabled
  /\ Len(handleCalls) < MaxHandleCalls
  /\ HandleApply(Len(handleCalls) + 1, CheckModal(HandleWorld(NewHandleCall), opens))

\* setTimeout(checkModal, delay)
CheckModalTimer(n, opens) ==
  /\ n \in 1..Len(handleCalls)
  /\ handleCalls[n].pc = "modal"
  /\ HandleApply(n, CheckModal(HandleWorld(handleCalls[n]), opens))

\* setTimeout(tryFind, delay)
TryFindTimer(n, opens) ==
  /\ n \in 1..Len(handleCalls)
  /\ handleCalls[n].pc = "button"
  /\ HandleApply(n, TryFind(HandleWorld(handleCalls[n]), opens))

\* setTimeout(checkTextarea, delay)
CheckTextareaTimer(n) ==
  /\ n \in 1..Len(handleCalls)
  /\ handleCalls[n].pc = "textarea"
  /\ HandleApply(n, CheckTextarea(HandleWorld(handleCalls[n])))

\* chrome.storage.sync.get has resolved or rejected: this.config is set
\* either way
LoadConfigReturns(n) ==
  /\ n \in 1..Len(handleCalls)
  /\ handleCalls[n].pc = "loadConfig"
  /\ HandleApply(n, InsertMessage(HandleWorld(handleCalls[n])))

\* loadConfig called by insertMessageIntoChat or from the console has set
\* this.config
ConfigLoadedElsewhere ==
  /\ ~cachedConfig
  /\ cachedConfig' = TRUE
  /\ UNCHANGED <<handleCalls, dialog>>
  /\ HandleOnly

\* the message reloadConfig of the popup: storageManager.config = null
ReloadConfig ==
  /\ cachedConfig
  /\ cachedConfig' = FALSE
  /\ UNCHANGED <<handleCalls, dialog>>
  /\ HandleOnly

\* the page changes what the selectors find; it does not write the textarea
DialogChanges(d) ==
  /\ dialog' = [modal |-> d.modal, button |-> d.button, textarea |-> d.textarea,
                value |-> dialog.value]
  /\ dialog' # dialog
  /\ UNCHANGED <<handleCalls, cachedConfig>>
  /\ HandleOnly

\* every component as its constructor leaves it
QueueInit ==
  /\ ops = <<>>
  /\ queue = <<>>
  /\ isProcessing = FALSE
  /\ current = 0
  /\ running = {}
  /\ retryTimers = {}
  /\ activeOperations = {}
  /\ operationHistory = <<>>
  /\ circuitBreakers = [n \in Names |-> NoBreaker]
  /\ call = IdleCall
  /\ nCalls = 0
  /\ now = 0
  /\ failStreak = [n \in Names |-> 0]
  /\ lastFailed = [n \in Names |-> 0]
  /\ fallbackStrategies = Names
  /\ recoveryStrategies = Names
  /\ dom = <<>>
  /\ finder = IdleFinder
  /\ storedConfig = Obj(<<>>)
  /\ mergedConfig = Undefined
  /\ mergedBy = "none"
  /\ personalEmail = Text(<<>>)
  /\ template = <<>>
  /\ variables = <<>>
  /\ processed = NotProcessed
  /\ inserter = IdleInserter
  /\ listeners = {}
  /\ observers = {}
  /\ timers = {}
  /\ attached = {}
  /\ observing = {}
  /\ armed = {}
  /\ cleanups = 0
  /\ profileData = NoProfile
  /\ userTemplates = {}
  /\ selected = NotSelected
  /\ clearedTimeouts = {}
  /\ pendingAtCancel = {}
  /\ flowCalls = <<>>
  /\ flowTimers = {}
  /\ modalShownAt = 0
  /\ timedOut = {}
  /\ clicks = 0
  /\ delayAttempt = 0
  /\ delayRandom = 0
  /\ retryDelay = 0
  /\ page = <<>>
  /\ selectorCache = [selector |-> "none", strategy |-> "none", hits |-> 0]
  /\ strategyStats = [t \in {"primary", "semantic", "structural", "fallback"} |-> [success |-> 0, attempts |-> 0]]
  /\ findCalls = <<>>
  /\ lastTried = <<>>
  /\ syncStorage = <<"undefined", <<>>>>
  /\ defaultConfig = StorageDefaultConfig
  /\ storageCalls = <<>>
  /\ extensionEnabled = TRUE
  /\ documentHidden = FALSE
  /\ connectClicks = 0
  /\ enabledClicks = 0
  /\ flowsStarted = 0
  /\ modalExists = FALSE
  /\ textareaExists = FALSE
  /\ modalWaits = <<>>
  /\ fillCalls = <<>>
  /\ textareaWaits = <<>>
  /\ insertsRunning = 0
  /\ insertedWhileDisabled = FALSE
  /\ handleCalls = <<>>
  /\ dialog = [modal |-> FALSE, button |-> NoButton, textarea |-> FALSE, value |-> ""]
  /\ cachedConfig = FALSE

\* a name has a fallback and a recovery strategy, a fallback alone or neither
BoundaryInit ==
  /\ ops = <<>>
  /\ queue = <<>>
  /\ isProcessing = FALSE
  /\ current = 0
  /\ running = {}
  /\ retryTimers = {}
  /\ activeOperations = {}
  /\ operationHistory = <<>>
  /\ circuitBreakers = [n \in Names |-> NoBreaker]
  /\ call = IdleCall
  /\ nCalls = 0
  /\ now = 0
  /\ failStreak = [n \in Names |-> 0]
  /\ lastFailed = [n \in Names |-> 0]
  /\ fallbackStrategies \in SUBSET Names
  /\ recoveryStrategies \in SUBSET fallbackStrategies
  /\ dom = <<>>
  /\ finder = IdleFinder
  /\ storedConfig = Obj(<<>>)
  /\ mergedConfig = Undefined
  /\ mergedBy = "none"
  /\ personalEmail = Text(<<>>)
  /\ template = <<>>
  /\ variables = <<>>
  /\ processed = NotProcessed
  /\ inserter = IdleInserter
  /\ listeners = {}
  /\ observers = {}
  /\ timers = {}
  /\ attached = {}
  /\ observing = {}
  /\ armed = {}
  /\ cleanups = 0
  /\ profileData = NoProfile
  /\ userTemplates = {}
  /\ selected = NotSelected
  /\ clearedTimeouts = {}
  /\ pendingAtCancel = {}
  /\ flowCalls = <<>>
  /\ flowTimers = {}
  /\ modalShownAt = 0
  /\ timedOut = {}
  /\ clicks = 0
  /\ delayAttempt = 0
  /\ delayRandom = 0
  /\ retryDelay = 0
  /\ page = <<>>
  /\ selectorCache = [selector |-> "none", strategy |-> "none", hits |-> 0]
  /\ strategyStats = [t \in {"primary", "semantic", "structural", "fallback"} |-> [success |-> 0, attempts |-> 0]]
  /\ findCalls = <<>>
  /\ lastTried = <<>>
  /\ syncStorage = <<"undefined", <<>>>>
  /\ defaultConfig = StorageDefaultConfig
  /\ storageCalls = <<>>
  /\ extensionEnabled = TRUE
  /\ documentHidden = FALSE
  /\ connectClicks = 0
  /\ enabledClicks = 0
  /\ flowsStarted = 0
  /\ modalExists = FALSE
  /\ textareaExists = FALSE
  /\ modalWaits = <<>>
  /\ fillCalls = <<>>
  /\ textareaWaits = <<>>
  /\ insertsRunning = 0
  /\ insertedWhileDisabled = FALSE
  /\ handleCalls = <<>>
  /\ dialog = [modal |-> FALSE, button |-> NoButton, textarea |-> FALSE, value |-> ""]
  /\ cachedConfig = FALSE

\* an empty document, no call made
FinderInit ==
  /\ ops = <<>>
  /\ queue = <<>>
  /\ isProcessing = FALSE
  /\ current = 0
  /\ running = {}
  /\ retryTimers = {}
  /\ activeOperations = {}
  /\ operationHistory = <<>>
  /\ circuitBreakers = [n \in Names |-> NoBreaker]
  /\ call = IdleCall
  /\ nCalls = 0
  /\ now = 0
  /\ failStreak = [n \in Names |-> 0]
  /\ lastFailed = [n \in Names |-> 0]
  /\ fallbackStrategies = Names
  /\ recoveryStrategies = Names
  /\ dom = <<>>
  /\ finder = IdleFinder
  /\ storedConfig = Obj(<<>>)
  /\ mergedConfig = Undefined
  /\ mergedBy = "none"
  /\ personalEmail = Text(<<>>)
  /\ template = <<>>
  /\ variables = <<>>
  /\ processed = NotProcessed
  /\ inserter = IdleInserter
  /\ listeners = {}
  /\ observers = {}
  /\ timers = {}
  /\ attached = {}
  /\ observing = {}
  /\ armed = {}
  /\ cleanups = 0
  /\ profileData = NoProfile
  /\ userTemplates = {}
  /\ selected = NotSelected
  /\ clearedTimeouts = {}
  /\ pendingAtCancel = {}
  /\ flowCalls = <<>>
  /\ flowTimers = {}
  /\ modalShownAt = 0
  /\ timedOut = {}
  /\ clicks = 0
  /\ delayAttempt = 0
  /\ delayRandom = 0
  /\ retryDelay = 0
  /\ page = <<>>
  /\ selectorCache = [selector |-> "none", strategy |-> "none", hits |-> 0]
  /\ strategyStats = [t \in {"primary", "semantic", "structural", "fallback"} |-> [success |-> 0, attempts |-> 0]]
  /\ findCalls = <<>>
  /\ lastTried = <<>>
  /\ syncStorage = <<"undefined", <<>>>>
  /\ defaultConfig = StorageDefaultConfig
  /\ storageCalls = <<>>
  /\ extensionEnabled = TRUE
  /\ documentHidden = FALSE
  /\ connectClicks = 0
  /\ enabledClicks = 0
  /\ flowsStarted = 0
  /\ modalExists = FALSE
  /\ textareaExists = FALSE
  /\ modalWaits = <<>>
  /\ fillCalls = <<>>
  /\ textareaWaits = <<>>
  /\ insertsRunning = 0
  /\ insertedWhileDisabled = FALSE
  /\ handleCalls = <<>>
  /\ dialog = [modal |-> FALSE, button |-> NoButton, textarea |-> FALSE, value |-> ""]
  /\ cachedConfig = FALSE

\* any stored or imported configuration
MergeInit ==
  /\ ops = <<>>
  /\ queue = <<>>
  /\ isProcessing = FALSE
  /\ current = 0
  /\ running = {}
  /\ retryTimers = {}
  /\ activeOperations = {}
  /\ operationHistory = <<>>
  /\ circuitBreakers = [n \in Names |-> NoBreaker]
  /\ call = IdleCall
  /\ nCalls = 0
  /\ now = 0
  /\ failStreak = [n \in Names |-> 0]
  /\ lastFailed = [n \in Names |-> 0]
  /\ fallbackStrategies = Names
  /\ recoveryStrategies = Names
  /\ dom = <<>>
  /\ finder = IdleFinder
  /\ storedConfig \in StoredConfigs
  /\ mergedConfig = Undefined
  /\ mergedBy = "none"
  /\ personalEmail = Text(<<>>)
  /\ template = <<>>
  /\ variables = <<>>
  /\ processed = NotProcessed
  /\ inserter = IdleInserter
  /\ listeners = {}
  /\ observers = {}
  /\ timers = {}
  /\ attached = {}
  /\ observing = {}
  /\ armed = {}
  /\ cleanups = 0
  /\ profileData = NoProfile
  /\ userTemplates = {}
  /\ selected = NotSelected
  /\ clearedTimeouts = {}
  /\ pendingAtCancel = {}
  /\ flowCalls = <<>>
  /\ flowTimers = {}
  /\ modalShownAt = 0
  /\ timedOut = {}
  /\ clicks = 0
  /\ delayAttempt = 0
  /\ delayRandom = 0
  /\ retryDelay = 0
  /\ page = <<>>
  /\ selectorCache = [selector |-> "none", strategy |-> "none", hits |-> 0]
  /\ strategyStats = [t \in {"primary", "semantic", "structural", "fallback"} |-> [success |-> 0, attempts |-> 0]]
  /\ findCalls = <<>>
  /\ lastTried = <<>>
  /\ syncStorage = <<"undefined", <<>>>>
  /\ defaultConfig = StorageDefaultConfig
  /\ storageCalls = <<>>
  /\ extensionEnabled = TRUE
  /\ documentHidden = FALSE
  /\ connectClicks = 0
  /\ enabledClicks = 0
  /\ flowsStarted = 0
  /\ modalExists = FALSE
  /\ textareaExists = FALSE
  /\ modalWaits = <<>>
  /\ fillCalls = <<>>
  /\ textareaWaits = <<>>
  /\ insertsRunning = 0
  /\ insertedWhileDisabled = FALSE
  /\ handleCalls = <<>>
  /\ dialog = [modal |-> FALSE, button |-> NoButton, textarea |-> FALSE, value |-> ""]
  /\ cachedConfig = FALSE

\* any template, any variables, an e-mail address in storage or none
TemplateInit ==
  /\ ops = <<>>
  /\ queue = <<>>
  /\ isProcessing = FALSE
  /\ current = 0
  /\ running = {}
  /\ retryTimers = {}
  /\ activeOperations = {}
  /\ operationHistory = <<>>
  /\ circuitBreakers = [n \in Names |-> NoBreaker]
  /\ call = IdleCall
  /\ nCalls = 0
  /\ now = 0
  /\ failStreak = [n \in Names |-> 0]
  /\ lastFailed = [n \in Names |-> 0]
  /\ fallbackStrategies = Names
  /\ recoveryStrategies = Names
  /\ dom = <<>>
  /\ finder = IdleFinder
  /\ storedConfig = Obj(<<>>)
  /\ mergedConfig = Undefined
  /\ mergedBy = "none"
  /\ personalEmail \in {Text(<<>>), Text(<<"me", "@", "nyu", ".", "edu">>)}
  /\ template \in Templates
  /\ variables \in VariableBags
  /\ processed = NotProcessed
  /\ inserter = IdleInserter
  /\ listeners = {}
  /\ observers = {}
  /\ timers = {}
  /\ attached = {}
  /\ observing = {}
  /\ armed = {}
  /\ cleanups = 0
  /\ profileData = NoProfile
  /\ userTemplates = {}
  /\ selected = NotSelected
  /\ clearedTimeouts = {}
  /\ pendingAtCancel = {}
  /\ flowCalls = <<>>
  /\ flowTimers = {}
  /\ modalShownAt = 0
  /\ timedOut = {}
  /\ clicks = 0
  /\ delayAttempt = 0
  /\ delayRandom = 0
  /\ retryDelay = 0
  /\ page = <<>>
  /\ selectorCache = [selector |-> "none", strategy |-> "none", hits |-> 0]
  /\ strategyStats = [t \in {"primary", "semantic", "structural", "fallback"} |-> [success |-> 0, attempts |-> 0]]
  /\ findCalls = <<>>
  /\ lastTried = <<>>
  /\ syncStorage = <<"undefined", <<>>>>
  /\ defaultConfig = StorageDefaultConfig
  /\ storageCalls = <<>>
  /\ extensionEnabled = TRUE
  /\ documentHidden = FALSE
  /\ connectClicks = 0
  /\ enabledClicks = 0
  /\ flowsStarted = 0
  /\ modalExists = FALSE
  /\ textareaExists = FALSE
  /\ modalWaits = <<>>
  /\ fillCalls = <<>>
  /\ textareaWaits = <<>>
  /\ insertsRunning = 0
  /\ insertedWhileDisabled = FALSE
  /\ handleCalls = <<>>
  /\ dialog = [modal |-> FALSE, button |-> NoButton, textarea |-> FALSE, value |-> ""]
  /\ cachedConfig = FALSE

\* no insertPersonalizedMessage call made yet
InserterInit ==
  /\ ops = <<>>
  /\ queue = <<>>
  /\ isProcessing = FALSE
  /\ current = 0
  /\ running = {}
  /\ retryTimers = {}
  /\ activeOperations = {}
  /\ operationHistory = <<>>
  /\ circuitBreakers = [n \in Names |-> NoBreaker]
  /\ call = IdleCall
  /\ nCalls = 0
  /\ now = 0
  /\ failStreak = [n \in Names |-> 0]
  /\ lastFailed = [n \in Names |-> 0]
  /\ fallbackStrategies = Names
  /\ recoveryStrategies = Names
  /\ dom = <<>>
  /\ finder = IdleFinder
  /\ storedConfig = Obj(<<>>)
  /\ mergedConfig = Undefined
  /\ mergedBy = "none"
  /\ personalEmail = Text(<<>>)
  /\ template = <<>>
  /\ variables = <<>>
  /\ processed = NotProcessed
  /\ inserter = IdleInserter
  /\ listeners = {}
  /\ observers = {}
  /\ timers = {}
  /\ attached = {}
  /\ observing = {}
  /\ armed = {}
  /\ cleanups = 0
  /\ profileData = NoProfile
  /\ userTemplates = {}
  /\ selected = NotSelected
  /\ clearedTimeouts = {}
  /\ pendingAtCancel = {}
  /\ flowCalls = <<>>
  /\ flowTimers = {}
  /\ modalShownAt = 0
  /\ timedOut = {}
  /\ clicks = 0
  /\ delayAttempt = 0
  /\ delayRandom = 0
  /\ retryDelay = 0
  /\ page = <<>>
  /\ selectorCache = [selector |-> "none", strategy |-> "none", hits |-> 0]
  /\ strategyStats = [t \in {"primary", "semantic", "structural", "fallback"} |-> [success |-> 0, attempts |-> 0]]
  /\ findCalls = <<>>
  /\ lastTried = <<>>
  /\ syncStorage = <<"undefined", <<>>>>
  /\ defaultConfig = StorageDefaultConfig
  /\ storageCalls = <<>>
  /\ extensionEnabled = TRUE
  /\ documentHidden = FALSE
  /\ connectClicks = 0
  /\ enabledClicks = 0
  /\ flowsStarted = 0
  /\ modalExists = FALSE
  /\ textareaExists = FALSE
  /\ modalWaits = <<>>
  /\ fillCalls = <<>>
  /\ textareaWaits = <<>>
  /\ insertsRunning = 0
  /\ insertedWhileDisabled = FALSE
  /\ handleCalls = <<>>
  /\ dialog = [modal |-> FALSE, button |-> NoButton, textarea |-> FALSE, value |-> ""]
  /\ cachedConfig = FALSE

InserterNext ==
  \/ InsertPersonalizedMessage
  \/ \E r \in {Null} \cup {Text(t) : t \in NameElementTexts} : FindNameElementReturns(r)
  \/ FindNameElementThrows
  \/ \E t \in ProfileNameTexts : ExtractNameReturns(t)
  \/ \E entry \in PromptResults : ExtractNameThrows(entry)
  \/ HandleNameDetectedReturns
  \/ HandleNameDetectedThrows

\* nothing is tracked when the ResourceManager is constructed
ResourceInit ==
  /\ ops = <<>>
  /\ queue = <<>>
  /\ isProcessing = FALSE
  /\ current = 0
  /\ running = {}
  /\ retryTimers = {}
  /\ activeOperations = {}
  /\ operationHistory = <<>>
  /\ circuitBreakers = [n \in Names |-> NoBreaker]
  /\ call = IdleCall
  /\ nCalls = 0
  /\ now = 0
  /\ failStreak = [n \in Names |-> 0]
  /\ lastFailed = [n \in Names |-> 0]
  /\ fallbackStrategies = Names
  /\ recoveryStrategies = Names
  /\ dom = <<>>
  /\ finder = IdleFinder
  /\ storedConfig = Obj(<<>>)
  /\ mergedConfig = Undefined
  /\ mergedBy = "none"
  /\ personalEmail = Text(<<>>)
  /\ template = <<>>
  /\ variables = <<>>
  /\ processed = NotProcessed
  /\ inserter = IdleInserter
  /\ listeners = {}
  /\ observers = {}
  /\ timers = {}
  /\ attached = {}
  /\ observing = {}
  /\ armed = {}
  /\ cleanups = 0
  /\ profileData = NoProfile
  /\ userTemplates = {}
  /\ selected = NotSelected
  /\ clearedTimeouts = {}
  /\ pendingAtCancel = {}
  /\ flowCalls = <<>>
  /\ flowTimers = {}
  /\ modalShownAt = 0
  /\ timedOut = {}
  /\ clicks = 0
  /\ delayAttempt = 0
  /\ delayRandom = 0
  /\ retryDelay = 0
  /\ page = <<>>
  /\ selectorCache = [selector |-> "none", strategy |-> "none", hits |-> 0]
  /\ strategyStats = [t \in {"primary", "semantic", "structural", "fallback"} |-> [success |-> 0, attempts |-> 0]]
  /\ findCalls = <<>>
  /\ lastTried = <<>>
  /\ syncStorage = <<"undefined", <<>>>>
  /\ defaultConfig = StorageDefaultConfig
  /\ storageCalls = <<>>
  /\ extensionEnabled = TRUE
  /\ documentHidden = FALSE
  /\ connectClicks = 0
  /\ enabledClicks = 0
  /\ flowsStarted = 0
  /\ modalExists = FALSE
  /\ textareaExists = FALSE
  /\ modalWaits = <<>>
  /\ fillCalls = <<>>
  /\ textareaWaits = <<>>
  /\ insertsRunning = 0
  /\ insertedWhileDisabled = FALSE
  /\ handleCalls = <<>>
  /\ dialog = [modal |-> FALSE, button |-> NoButton, textarea |-> FALSE, value |-> ""]
  /\ cachedConfig = FALSE

ResourceNext ==
  \/ \E l \in ResourceIds : AddListener(l)
  \/ \E l \in ResourceIds : RemoveListener(l)
  \/ \E o \in ResourceIds : AddObserver(o)
  \/ \E o \in ResourceIds : RemoveObserver(o)
  \/ \E t \in ResourceIds : AddTimer(t)
  \/ \E t \in ResourceIds : RemoveTimer(t)
  \/ \E t \in ResourceIds : TimerFires(t)
  \/ Cleanup

\* any profile, user templates under some of the keys
SelectInit ==
  /\ ops = <<>>
  /\ queue = <<>>
  /\ isProcessing = FALSE
  /\ current = 0
  /\ running = {}
  /\ retryTimers = {}
  /\ activeOperations = {}
  /\ operationHistory = <<>>
  /\ circuitBreakers = [n \in Names |-> NoBreaker]
  /\ call = IdleCall
  /\ nCalls = 0
  /\ now = 0
  /\ failStreak = [n \in Names |-> 0]
  /\ lastFailed = [n \in Names |-> 0]
  /\ fallbackStrategies = Names
  /\ recoveryStrategies = Names
  /\ dom = <<>>
  /\ finder = IdleFinder
  /\ storedConfig = Obj(<<>>)
  /\ mergedConfig = Undefined
  /\ mergedBy = "none"
  /\ personalEmail = Text(<<>>)
  /\ template = <<>>
  /\ variables = <<>>
  /\ processed = NotProcessed
  /\ inserter = IdleInserter
  /\ listeners = {}
  /\ observers = {}
  /\ timers = {}
  /\ attached = {}
  /\ observing = {}
  /\ armed = {}
  /\ cleanups = 0
  /\ profileData \in ProfileDatas
  /\ userTemplates \in SUBSET {"engineer", "general"}
  /\ selected = NotSelected
  /\ clearedTimeouts = {}
  /\ pendingAtCancel = {}
  /\ flowCalls = <<>>
  /\ flowTimers = {}
  /\ modalShownAt = 0
  /\ timedOut = {}
  /\ clicks = 0
  /\ delayAttempt = 0
  /\ delayRandom = 0
  /\ retryDelay = 0
  /\ page = <<>>
  /\ selectorCache = [selector |-> "none", strategy |-> "none", hits |-> 0]
  /\ strategyStats = [t \in {"primary", "semantic", "structural", "fallback"} |-> [success |-> 0, attempts |-> 0]]
  /\ findCalls = <<>>
  /\ lastTried = <<>>
  /\ syncStorage = <<"undefined", <<>>>>
  /\ defaultConfig = StorageDefaultConfig
  /\ storageCalls = <<>>
  /\ extensionEnabled = TRUE
  /\ documentHidden = FALSE
  /\ connectClicks = 0
  /\ enabledClicks = 0
  /\ flowsStarted = 0
  /\ modalExists = FALSE
  /\ textareaExists = FALSE
  /\ modalWaits = <<>>
  /\ fillCalls = <<>>
  /\ textareaWaits = <<>>
  /\ insertsRunning = 0
  /\ insertedWhileDisabled = FALSE
  /\ handleCalls = <<>>
  /\ dialog = [modal |-> FALSE, button |-> NoButton, textarea |-> FALSE, value |-> ""]
  /\ cachedConfig = FALSE

SelectNext == SelectTemplate

FinderNext ==
  \/ \E option \in 0..MaxAttemptsOption : FindElementWithRetry(option)
  \/ FinderTimerFires
  \/ \E e \in Elements : ElementAppended(e)
  \/ \E i \in 1..Len(dom) : ElementRemoved(i)

MergeNext ==
  \/ LoadConfig
  \/ ImportSettings

TemplateNext == ProcessTemplate

BoundaryNext ==
  \/ \E name \in Names, cb, retry, degrade \in BOOLEAN, opKind \in {"fails", "flaky"} :
       ProtectCall(name, cb, retry, degrade, opKind)
  \/ OperationFulfils
  \/ OperationFails
  \/ RetryDelayOver
  \/ RetryFulfils
  \/ RetryFails
  \/ RecoveryReturns
  \/ FallbackFulfils
  \/ FallbackThrows
  \/ Tick

\* the protect calls, and the debug console resetting a breaker between them
BoundaryResetNext ==
  \/ BoundaryNext
  \/ \E name \in Names : ResetCircuitBreaker(name)

QueueNext ==
  \/ \E type \in OperationTypes : Enqueue(type)
  \/ ClosureFulfils
  \/ ClosureRejects
  \/ TimeoutFires
  \/ \E r \in running : LateClosureFinish(r)
  \/ \E id \in retryTimers : RetryTimerFires(id)

\* the page is loaded: nothing is queued, no breaker exists, no modal is shown
FlowInit ==
  /\ ops = <<>>
  /\ queue = <<>>
  /\ isProcessing = FALSE
  /\ current = 0
  /\ running = {}
  /\ retryTimers = {}
  /\ activeOperations = {}
  /\ operationHistory = <<>>
  /\ circuitBreakers = [n \in FlowNames |-> NoBreaker]
  /\ call = IdleCall
  /\ nCalls = 0
  /\ now = 0
  /\ failStreak = [n \in Names |-> 0]
  /\ lastFailed = [n \in Names |-> 0]
  /\ fallbackStrategies = Names
  /\ recoveryStrategies = Names
  /\ dom = <<>>
  /\ finder = IdleFinder
  /\ storedConfig = Obj(<<>>)
  /\ mergedConfig = Undefined
  /\ mergedBy = "none"
  /\ personalEmail = Text(<<>>)
  /\ template = <<>>
  /\ variables = <<>>
  /\ processed = NotProcessed
  /\ inserter = IdleInserter
  /\ listeners = {}
  /\ observers = {}
  /\ timers = {}
  /\ attached = {}
  /\ observing = {}
  /\ armed = {}
  /\ cleanups = 0
  /\ profileData = NoProfile
  /\ userTemplates = {}
  /\ selected = NotSelected
  /\ clearedTimeouts = {}
  /\ pendingAtCancel = {}
  /\ flowCalls = <<>>
  /\ flowTimers = {}
  /\ modalShownAt = 0
  /\ timedOut = {}
  /\ clicks = 0
  /\ delayAttempt = 0
  /\ delayRandom = 0
  /\ retryDelay = 0
  /\ page = <<>>
  /\ selectorCache = [selector |-> "none", strategy |-> "none", hits |-> 0]
  /\ strategyStats = [t \in {"primary", "semantic", "structural", "fallback"} |-> [success |-> 0, attempts |-> 0]]
  /\ findCalls = <<>>
  /\ lastTried = <<>>
  /\ syncStorage = <<"undefined", <<>>>>
  /\ defaultConfig = StorageDefaultConfig
  /\ storageCalls = <<>>
  /\ extensionEnabled = TRUE
  /\ documentHidden = FALSE
  /\ connectClicks = 0
  /\ enabledClicks = 0
  /\ flowsStarted = 0
  /\ modalExists = FALSE
  /\ textareaExists = FALSE
  /\ modalWaits = <<>>
  /\ fillCalls = <<>>
  /\ textareaWaits = <<>>
  /\ insertsRunning = 0
  /\ insertedWhileDisabled = FALSE
  /\ handleCalls = <<>>
  /\ dialog = [modal |-> FALSE, button |-> NoButton, textarea |-> FALSE, value |-> ""]
  /\ cachedConfig = FALSE

FlowNext ==
  \/ \E delay \in {0, PromptMs, SlowMs} : ConnectButtonClicked(delay)
  \/ \E x \in flowTimers, ok \in BOOLEAN, jit \in FlowJitters : FlowTimerFires(x, ok, jit)

SpecFlow == FlowInit /\ [][FlowNext]_vars

\* the queue, with cancelAll() and ResourceManager.cleanup() called at any time
QueueCancelNext ==
  \/ QueueNext
  \/ CancelAll
  \/ QueueTimersCleared

SpecQueue == QueueInit /\ [][QueueNext]_vars

\* A closure that was started terminates or runs into its timeout, and a
\* retry timer that is pending fires.
SpecQueueCancel ==
  /\ QueueInit
  /\ [][QueueCancelNext]_vars
  /\ WF_vars(ClosureFulfils \/ ClosureRejects \/ TimeoutFires)
  /\ \A id \in 1..MaxOps : WF_vars(RetryTimerFires(id))

SpecBoundary == BoundaryInit /\ [][BoundaryNext]_vars

SpecBoundaryReset == BoundaryInit /\ [][BoundaryResetNext]_vars

\* the timer of a round is not registered anywhere and nothing clears it:
\* it fires
SpecFinder == FinderInit /\ [][FinderNext]_vars /\ WF_vars(FinderTimerFires)

SpecMerge == MergeInit /\ [][MergeNext]_vars

SpecTemplate == TemplateInit /\ [][TemplateNext]_vars

SpecResource == ResourceInit /\ [][ResourceNext]_vars

SpecSelect == SelectInit /\ [][SelectNext]_vars

SpecInserter == InserterInit /\ [][InserterNext]_vars



\* calculateRetryDelay has not been called
DelayInit ==
  /\ ops = <<>>
  /\ queue = <<>>
  /\ isProcessing = FALSE
  /\ current = 0
  /\ running = {}
  /\ retryTimers = {}
  /\ activeOperations = {}
  /\ operationHistory = <<>>
  /\ circuitBreakers = [n \in Names |-> NoBreaker]
  /\ call = IdleCall
  /\ nCalls = 0
  /\ now = 0
  /\ failStreak = [n \in Names |-> 0]
  /\ lastFailed = [n \in Names |-> 0]
  /\ fallbackStrategies = Names
  /\ recoveryStrategies = Names
  /\ dom = <<>>
  /\ finder = IdleFinder
  /\ storedConfig = Obj(<<>>)
  /\ mergedConfig = Undefined
  /\ mergedBy = "none"
  /\ personalEmail = Text(<<>>)
  /\ template = <<>>
  /\ variables = <<>>
  /\ processed = NotProcessed
  /\ inserter = IdleInserter
  /\ listeners = {}
  /\ observers = {}
  /\ timers = {}
  /\ attached = {}
  /\ observing = {}
  /\ armed = {}
  /\ cleanups = 0
  /\ profileData = NoProfile
  /\ userTemplates = {}
  /\ selected = NotSelected
  /\ clearedTimeouts = {}
  /\ pendingAtCancel = {}
  /\ flowCalls = <<>>
  /\ flowTimers = {}
  /\ modalShownAt = 0
  /\ timedOut = {}
  /\ clicks = 0
  /\ delayAttempt = 0
  /\ delayRandom = 0
  /\ retryDelay = 0
  /\ page = <<>>
  /\ selectorCache = [selector |-> "none", strategy |-> "none", hits |-> 0]
  /\ strategyStats = [t \in {"primary", "semantic", "structural", "fallback"} |-> [success |-> 0, attempts |-> 0]]
  /\ findCalls = <<>>
  /\ lastTried = <<>>
  /\ syncStorage = <<"undefined", <<>>>>
  /\ defaultConfig = StorageDefaultConfig
  /\ storageCalls = <<>>
  /\ extensionEnabled = TRUE
  /\ documentHidden = FALSE
  /\ connectClicks = 0
  /\ enabledClicks = 0
  /\ flowsStarted = 0
  /\ modalExists = FALSE
  /\ textareaExists = FALSE
  /\ modalWaits = <<>>
  /\ fillCalls = <<>>
  /\ textareaWaits = <<>>
  /\ insertsRunning = 0
  /\ insertedWhileDisabled = FALSE
  /\ handleCalls = <<>>
  /\ dialog = [modal |-> FALSE, button |-> NoButton, textarea |-> FALSE, value |-> ""]
  /\ cachedConfig = FALSE

DelayNext == \E attempt \in 1..MaxDelayAttempt, jit \in Jitters : CalculateRetryDelay(attempt, jit)

SpecDelay == DelayInit /\ [][DelayNext]_vars

\* the ResilientElementFinder as its constructor leaves it, on an empty document
ResilientInit ==
  /\ ops = <<>>
  /\ queue = <<>>
  /\ isProcessing = FALSE
  /\ current = 0
  /\ running = {}
  /\ retryTimers = {}
  /\ activeOperations = {}
  /\ operationHistory = <<>>
  /\ circuitBreakers = [n \in Names |-> NoBreaker]
  /\ call = IdleCall
  /\ nCalls = 0
  /\ now = 0
  /\ failStreak = [n \in Names |-> 0]
  /\ lastFailed = [n \in Names |-> 0]
  /\ fallbackStrategies = Names
  /\ recoveryStrategies = Names
  /\ dom = <<>>
  /\ finder = IdleFinder
  /\ storedConfig = Obj(<<>>)
  /\ mergedConfig = Undefined
  /\ mergedBy = "none"
  /\ personalEmail = Text(<<>>)
  /\ template = <<>>
  /\ variables = <<>>
  /\ processed = NotProcessed
  /\ inserter = IdleInserter
  /\ listeners = {}
  /\ observers = {}
  /\ timers = {}
  /\ attached = {}
  /\ observing = {}
  /\ armed = {}
  /\ cleanups = 0
  /\ profileData = NoProfile
  /\ userTemplates = {}
  /\ selected = NotSelected
  /\ clearedTimeouts = {}
  /\ pendingAtCancel = {}
  /\ flowCalls = <<>>
  /\ flowTimers = {}
  /\ modalShownAt = 0
  /\ timedOut = {}
  /\ clicks = 0
  /\ delayAttempt = 0
  /\ delayRandom = 0
  /\ retryDelay = 0
  /\ page = <<>>
  /\ selectorCache = [selector |-> "none", strategy |-> "none", hits |-> 0]
  /\ strategyStats = [t \in {"primary", "semantic", "structural", "fallback"} |-> [success |-> 0, attempts |-> 0]]
  /\ findCalls = <<>>
  /\ lastTried = <<>>
  /\ syncStorage = <<"undefined", <<>>>>
  /\ defaultConfig = StorageDefaultConfig
  /\ storageCalls = <<>>
  /\ extensionEnabled = TRUE
  /\ documentHidden = FALSE
  /\ connectClicks = 0
  /\ enabledClicks = 0
  /\ flowsStarted = 0
  /\ modalExists = FALSE
  /\ textareaExists = FALSE
  /\ modalWaits = <<>>
  /\ fillCalls = <<>>
  /\ textareaWaits = <<>>
  /\ insertsRunning = 0
  /\ insertedWhileDisabled = FALSE
  /\ handleCalls = <<>>
  /\ dialog = [modal |-> FALSE, button |-> NoButton, textarea |-> FALSE, value |-> ""]
  /\ cachedConfig = FALSE

ResilientNext ==
  \/ \E v \in Validators : FindElement(v)
  \/ \E n \in 1..MaxFindCalls, late \in BOOLEAN : TryStrategiesAgain(n, late)
  \/ ResetFinder
  \/ \E pg \in Pages : PageChanges(pg)

SpecResilient == ResilientInit /\ [][ResilientNext]_vars

\* a new StorageManager and TemplateProcessor, chrome.storage.sync empty
StorageInit ==
  /\ ops = <<>>
  /\ queue = <<>>
  /\ isProcessing = FALSE
  /\ current = 0
  /\ running = {}
  /\ retryTimers = {}
  /\ activeOperations = {}
  /\ operationHistory = <<>>
  /\ circuitBreakers = [n \in Names |-> NoBreaker]
  /\ call = IdleCall
  /\ nCalls = 0
  /\ now = 0
  /\ failStreak = [n \in Names |-> 0]
  /\ lastFailed = [n \in Names |-> 0]
  /\ fallbackStrategies = Names
  /\ recoveryStrategies = Names
  /\ dom = <<>>
  /\ finder = IdleFinder
  /\ storedConfig = Obj(<<>>)
  /\ mergedConfig = Undefined
  /\ mergedBy = "none"
  /\ personalEmail = Text(<<>>)
  /\ template = <<>>
  /\ variables = <<>>
  /\ processed = NotProcessed
  /\ inserter = IdleInserter
  /\ listeners = {}
  /\ observers = {}
  /\ timers = {}
  /\ attached = {}
  /\ observing = {}
  /\ armed = {}
  /\ cleanups = 0
  /\ profileData = NoProfile
  /\ userTemplates = {}
  /\ selected = NotSelected
  /\ clearedTimeouts = {}
  /\ pendingAtCancel = {}
  /\ flowCalls = <<>>
  /\ flowTimers = {}
  /\ modalShownAt = 0
  /\ timedOut = {}
  /\ clicks = 0
  /\ delayAttempt = 0
  /\ delayRandom = 0
  /\ retryDelay = 0
  /\ page = <<>>
  /\ selectorCache = [selector |-> "none", strategy |-> "none", hits |-> 0]
  /\ strategyStats = [t \in {"primary", "semantic", "structural", "fallback"} |-> [success |-> 0, attempts |-> 0]]
  /\ findCalls = <<>>
  /\ lastTried = <<>>
  /\ syncStorage = <<"undefined", <<>>>>
  /\ defaultConfig = StorageDefaultConfig
  /\ storageCalls = <<>>
  /\ extensionEnabled = TRUE
  /\ documentHidden = FALSE
  /\ connectClicks = 0
  /\ enabledClicks = 0
  /\ flowsStarted = 0
  /\ modalExists = FALSE
  /\ textareaExists = FALSE
  /\ modalWaits = <<>>
  /\ fillCalls = <<>>
  /\ textareaWaits = <<>>
  /\ insertsRunning = 0
  /\ insertedWhileDisabled = FALSE
  /\ handleCalls = <<>>
  /\ dialog = [modal |-> FALSE, button |-> NoButton, textarea |-> FALSE, value |-> ""]
  /\ cachedConfig = FALSE

StorageNext ==
  \/ \E o \in StorageOps, ok \in BOOLEAN : StorageCall(o, ok)
  \/ \E n \in 1..MaxStorageCalls, ok \in BOOLEAN : StorageSettles(n, ok)

SpecStorage == StorageInit /\ [][StorageNext]_vars

\* content.js has been loaded into a page
PageInit ==
  /\ ops = <<>>
  /\ queue = <<>>
  /\ isProcessing = FALSE
  /\ current = 0
  /\ running = {}
  /\ retryTimers = {}
  /\ activeOperations = {}
  /\ operationHistory = <<>>
  /\ circuitBreakers = [n \in Names |-> NoBreaker]
  /\ call = IdleCall
  /\ nCalls = 0
  /\ now = 0
  /\ failStreak = [n \in Names |-> 0]
  /\ lastFailed = [n \in Names |-> 0]
  /\ fallbackStrategies = Names
  /\ recoveryStrategies = Names
  /\ dom = <<>>
  /\ finder = IdleFinder
  /\ storedConfig = Obj(<<>>)
  /\ mergedConfig = Undefined
  /\ mergedBy = "none"
  /\ personalEmail = Text(<<>>)
  /\ template = <<>>
  /\ variables = <<>>
  /\ processed = NotProcessed
  /\ inserter = IdleInserter
  /\ listeners = {}
  /\ observers = {}
  /\ timers = {}
  /\ attached = {}
  /\ observing = {}
  /\ armed = {}
  /\ cleanups = 0
  /\ profileData = NoProfile
  /\ userTemplates = {}
  /\ selected = NotSelected
  /\ clearedTimeouts = {}
  /\ pendingAtCancel = {}
  /\ flowCalls = <<>>
  /\ flowTimers = {}
  /\ modalShownAt = 0
  /\ timedOut = {}
  /\ clicks = 0
  /\ delayAttempt = 0
  /\ delayRandom = 0
  /\ retryDelay = 0
  /\ page = <<>>
  /\ selectorCache = [selector |-> "none", strategy |-> "none", hits |-> 0]
  /\ strategyStats = [t \in {"primary", "semantic", "structural", "fallback"} |-> [success |-> 0, attempts |-> 0]]
  /\ findCalls = <<>>
  /\ lastTried = <<>>
  /\ syncStorage = <<"undefined", <<>>>>
  /\ defaultConfig = StorageDefaultConfig
  /\ storageCalls = <<>>
  /\ extensionEnabled = TRUE
  /\ documentHidden = FALSE
  /\ connectClicks = 0
  /\ enabledClicks = 0
  /\ flowsStarted = 0
  /\ modalExists = FALSE
  /\ textareaExists = FALSE
  /\ modalWaits = <<>>
  /\ fillCalls = <<>>
  /\ textareaWaits = <<>>
  /\ insertsRunning = 0
  /\ insertedWhileDisabled = FALSE
  /\ handleCalls = <<>>
  /\ dialog = [modal |-> FALSE, button |-> NoButton, textarea |-> FALSE, value |-> ""]
  /\ cachedConfig = FALSE

PageNext ==
  \/ \E already \in BOOLEAN : ConnectClicked(already)
  \/ ToggleClicked
  \/ \E kind \in {"modal", "textarea", "other"} : DomMutates(kind)
  \/ \E n \in 1..MaxPageClicks : ModalCheckFires(n)
  \/ \E f \in 1..(2 * MaxPageClicks), found \in BOOLEAN : AddNoteButtonSearched(f, found)
  \/ \E n \in 1..(2 * MaxPageClicks) : TextareaCheckFires(n)
  \/ \E wrote \in BOOLEAN : InsertCompletes(wrote)

SpecPage == PageInit /\ [][PageNext]_vars

\* the v3.1 script has been loaded: the document click listener and the toggle listener are registered
LifecycleInit ==
  /\ ops = <<>>
  /\ queue = <<>>
  /\ isProcessing = FALSE
  /\ current = 0
  /\ running = {}
  /\ retryTimers = {}
  /\ activeOperations = {}
  /\ operationHistory = <<>>
  /\ circuitBreakers = [n \in Names |-> NoBreaker]
  /\ call = IdleCall
  /\ nCalls = 0
  /\ now = 0
  /\ failStreak = [n \in Names |-> 0]
  /\ lastFailed = [n \in Names |-> 0]
  /\ fallbackStrategies = Names
  /\ recoveryStrategies = Names
  /\ dom = <<>>
  /\ finder = IdleFinder
  /\ storedConfig = Obj(<<>>)
  /\ mergedConfig = Undefined
  /\ mergedBy = "none"
  /\ personalEmail = Text(<<>>)
  /\ template = <<>>
  /\ variables = <<>>
  /\ processed = NotProcessed
  /\ inserter = IdleInserter
  /\ listeners = {ClickListener, ToggleListener}
  /\ observers = {}
  /\ timers = {}
  /\ attached = {ClickListener, ToggleListener}
  /\ observing = {}
  /\ armed = {}
  /\ cleanups = 0
  /\ profileData = NoProfile
  /\ userTemplates = {}
  /\ selected = NotSelected
  /\ clearedTimeouts = {}
  /\ pendingAtCancel = {}
  /\ flowCalls = <<>>
  /\ flowTimers = {}
  /\ modalShownAt = 0
  /\ timedOut = {}
  /\ clicks = 0
  /\ delayAttempt = 0
  /\ delayRandom = 0
  /\ retryDelay = 0
  /\ page = <<>>
  /\ selectorCache = [selector |-> "none", strategy |-> "none", hits |-> 0]
  /\ strategyStats = [t \in {"primary", "semantic", "structural", "fallback"} |-> [success |-> 0, attempts |-> 0]]
  /\ findCalls = <<>>
  /\ lastTried = <<>>
  /\ syncStorage = <<"undefined", <<>>>>
  /\ defaultConfig = StorageDefaultConfig
  /\ storageCalls = <<>>
  /\ extensionEnabled = TRUE
  /\ documentHidden = FALSE
  /\ connectClicks = 0
  /\ enabledClicks = 0
  /\ flowsStarted = 0
  /\ modalExists = FALSE
  /\ textareaExists = FALSE
  /\ modalWaits = <<>>
  /\ fillCalls = <<>>
  /\ textareaWaits = <<>>
  /\ insertsRunning = 0
  /\ insertedWhileDisabled = FALSE
  /\ handleCalls = <<>>
  /\ dialog = [modal |-> FALSE, button |-> NoButton, textarea |-> FALSE, value |-> ""]
  /\ cachedConfig = FALSE

LifecycleNext ==
  \/ TabHidden
  \/ TabShown
  \/ ConnectClickedWithManager
  \/ ToggleClickedWithManager
  \/ \E o \in ResourceIds : AddObserver(o) \/ RemoveObserver(o)
  \/ \E t \in ResourceIds : AddTimer(t) \/ TimerFires(t)

SpecLifecycle == LifecycleInit /\ [][LifecycleNext]_vars

\* the v4 script has been loaded on a page
HandleInit ==
  /\ ops = <<>>
  /\ queue = <<>>
  /\ isProcessing = FALSE
  /\ current = 0
  /\ running = {}
  /\ retryTimers = {}
  /\ activeOperations = {}
  /\ operationHistory = <<>>
  /\ circuitBreakers = [n \in Names |-> NoBreaker]
  /\ call = IdleCall
  /\ nCalls = 0
  /\ now = 0
  /\ failStreak = [n \in Names |-> 0]
  /\ lastFailed = [n \in Names |-> 0]
  /\ fallbackStrategies = Names
  /\ recoveryStrategies = Names
  /\ dom = <<>>
  /\ finder = IdleFinder
  /\ storedConfig = Obj(<<>>)
  /\ mergedConfig = Undefined
  /\ mergedBy = "none"
  /\ personalEmail = Text(<<>>)
  /\ template = <<>>
  /\ variables = <<>>
  /\ processed = NotProcessed
  /\ inserter = IdleInserter
  /\ listeners = {}
  /\ observers = {}
  /\ timers = {}
  /\ attached = {}
  /\ observing = {}
  /\ armed = {}
  /\ cleanups = 0
  /\ profileData = NoProfile
  /\ userTemplates = {}
  /\ selected = NotSelected
  /\ clearedTimeouts = {}
  /\ pendingAtCancel = {}
  /\ flowCalls = <<>>
  /\ flowTimers = {}
  /\ modalShownAt = 0
  /\ timedOut = {}
  /\ clicks = 0
  /\ delayAttempt = 0
  /\ delayRandom = 0
  /\ retryDelay = 0
  /\ page = <<>>
  /\ selectorCache = [selector |-> "none", strategy |-> "none", hits |-> 0]
  /\ strategyStats = [t \in {"primary", "semantic", "structural", "fallback"} |-> [success |-> 0, attempts |-> 0]]
  /\ findCalls = <<>>
  /\ lastTried = <<>>
  /\ syncStorage = <<"undefined", <<>>>>
  /\ defaultConfig = StorageDefaultConfig
  /\ storageCalls = <<>>
  /\ extensionEnabled = TRUE
  /\ documentHidden = FALSE
  /\ connectClicks = 0
  /\ enabledClicks = 0
  /\ flowsStarted = 0
  /\ modalExists = FALSE
  /\ textareaExists = FALSE
  /\ modalWaits = <<>>
  /\ fillCalls = <<>>
  /\ textareaWaits = <<>>
  /\ insertsRunning = 0
  /\ insertedWhileDisabled = FALSE
  /\ handleCalls = <<>>
  /\ dialog = [modal |-> FALSE, button |-> NoButton, textarea |-> FALSE, value |-> ""]
  /\ cachedConfig = FALSE

HandleNext ==
  \/ \E opens \in BOOLEAN : HandleConnection(opens)
  \/ \E n \in 1..MaxHandleCalls, opens \in BOOLEAN : CheckModalTimer(n, opens)
  \/ \E n \in 1..MaxHandleCalls, opens \in BOOLEAN : TryFindTimer(n, opens)
  \/ \E n \in 1..MaxHandleCalls : CheckTextareaTimer(n)
  \/ \E n \in 1..MaxHandleCalls : LoadConfigReturns(n)
  \/ ConfigLoadedElsewhere
  \/ ReloadConfig
  \/ \E d \in Dialogs : DialogChanges(d)

SpecHandle == HandleInit /\ [][HandleNext]_vars

(***************************************************************************)
(* Claims about the OperationQueue                                         *)
(***************************************************************************)
\* C1: the queue executes closures sequentially: at every moment at most one
\* closure has been started and has not yet finished, also when an operation
\* hits its timeout or is retried.
C1_OneClosureAtATime == Cardinality(running) <= 1

\* the waiting list q is in non-increasing priority order, equal priorities
\* in enqueue order (ids are given in enqueue order)
QueueSorted(q, os) ==
  \A i, j \in 1..Len(q) :
    i < j => \/ os[q[i]].priority > os[q[j]].priority
             \/ os[q[i]].priority = os[q[j]].priority /\ q[i] < q[j]

\* the operation whose closure this step starts, as a set (empty: none)
StartedNow == {r[1] : r \in running' \ running}

\* the operation this step starts has maximal priority among it and the
\* operations left waiting
StartsMaximal ==
  \A id \in StartedNow : \A i \in 1..Len(queue') :
    ops'[id].priority >= ops'[queue'[i]].priority

\* C2 (as claimed): after any sequence of enqueue, completion, failure and
\* retry the waiting operations are in non-increasing priority order, equal
\* priorities in enqueue order, and the operation started next is a waiting
\* operation of maximal priority.
C2_AlwaysPriorityOrder == [][QueueSorted(queue', ops') /\ StartsMaximal]_vars

\* a retry timer fired in this step and put its operation back
RetryRequeued == ~(retryTimers \subseteq retryTimers')

\* C2 (amended): enqueue, completion and failure keep a waiting list that is
\* in priority order in that order, and the operation started next is
\* then a waiting operation of maximal priority; only the retry timer, which
\* puts the failed operation back at the front whatever its priority, can
\* break the order.
C2_OrderKeptExceptByRetry ==
  [][(QueueSorted(queue, ops) /\ ~RetryRequeued)
       => (QueueSorted(queue', ops') /\ StartsMaximal)]_vars

\* C2 witness: an operation enqueued later waits in front of an earlier one
\* of lower priority, and no operation has failed yet.
C2_Witness ==
  /\ \E i, j \in 1..Len(queue) :
        i < j /\ queue[i] > queue[j]
              /\ ops[queue[i]].priority > ops[queue[j]].priority
  /\ \A id \in OpIds : ops[id].attempts = 0

\* the first k executions were rejected and execution k + 1 fulfilled
FailsThenSucceeds(o, k) ==
  /\ Len(o.outcomes) = k + 1
  /\ \A i \in 1..k : o.outcomes[i] = "rejected"
  /\ o.outcomes[k + 1] = "fulfilled"

\* C3: a retryable operation is resolved exactly when its closure succeeds
\* after k < maxRetries failed executions, after exactly k + 1 executions and
\* with the result of the last one; it is rejected only after exactly
\* maxRetries = 3 executions that all failed, with the error of the last one;
\* it is never executed more than maxRetries times.
C3_RetryCounts ==
  \A id \in OpIds :
    LET o == ops[id] IN
    o.retryable =>
      /\ o.execs <= maxRetries
      /\ o.settled = "resolved" =>
            /\ \E k \in 0..(maxRetries - 1) : FailsThenSucceeds(o, k)
            /\ o.execs = Len(o.outcomes)
            /\ o.value = <<"result", o.execs>>
      /\ o.settled = "rejected" =>
            /\ o.execs = maxRetries
            /\ Len(o.outcomes) = maxRetries
            /\ \A i \in 1..maxRetries : o.outcomes[i] = "rejected"
            /\ o.value = <<"error", maxRetries>>
      /\ o.settled = "pending" /\ o.outcomes # <<>> =>
            /\ Len(o.outcomes) < maxRetries
            /\ \A i \in 1..Len(o.outcomes) : o.outcomes[i] = "rejected"

\* C3 witness: one retryable operation resolved on its third execution and
\* another was rejected after three failed executions.
C3_Witness ==
  /\ \E id \in OpIds :
        ops[id].retryable /\ ops[id].settled = "resolved" /\ ops[id].execs = 3
  /\ \E id \in OpIds :
        ops[id].retryable /\ ops[id].settled = "rejected" /\ ops[id].execs = 3

(***************************************************************************)
(* Claims about the ErrorBoundary                                          *)
(***************************************************************************)
\* C4: after failureThreshold = 3 failed protect calls in a row for one name
\* with the circuit breaker enabled the breaker of that name is OPEN, and a
\* protect call for that name made with the breaker enabled within 30 000 ms
\* of the last recorded failure does not invoke the operation closure and
\* returns what the fallback path returns (the result of the registered
\* fallback; null when none is registered or it throws).
C4_OpenAfterThreeFailures ==
  /\ \A n \in Names :
       (failStreak[n] >= 3 /\ now - lastFailed[n] <= 30000)
         => circuitBreakers[n].state = "OPEN"
  /\ (call.enableCircuitBreaker /\ call.guardedAtStart) =>
       /\ call.invoked = 0
       /\ call.pc \in {"fallback", "done"}
       /\ call.pc = "done" =>
            /\ call.outcome \in {"fallback", "null"}
            /\ call.outcome = "fallback" <=> call.fallbackRan = "fulfilled"

\* C4 witness: a call made at the very end of the 30 000 ms after the third
\* failure in a row has returned the result of the registered fallback
\* without invoking the operation.
C4_Witness ==
  /\ call.pc = "done"
  /\ call.enableCircuitBreaker
  /\ call.guardedAtStart
  /\ failStreak[call.name] = 3
  /\ now - lastFailed[call.name] = 30000
  /\ call.invoked = 0
  /\ call.outcome = "fallback"

\* C5: a protect call with enableGracefulDegradation true never rejects: it
\* resolves with the result of the operation, or with the result of the
\* registered fallback, or with null when no fallback is registered for the
\* name or the fallback itself throws.
C5_DegradationNeverRejects ==
  (call.enableGracefulDegradation /\ call.pc = "done") =>
    /\ call.outcome \in {"result", "fallback", "null"}
    /\ call.outcome = "result" <=> call.opFulfilled
    /\ call.outcome = "fallback" =>
         call.name \in fallbackStrategies /\ call.fallbackRan = "fulfilled"
    /\ call.outcome = "null" =>
         call.name \notin fallbackStrategies \/ call.fallbackRan = "threw"

\* C5 witness: the operation was invoked and failed at every retry, the
\* registered fallback threw as well, and the call resolved with null.
C5_Witness ==
  /\ call.pc = "done"
  /\ call.enableGracefulDegradation
  /\ call.enableRetry
  /\ call.invoked = 1 + boundaryMaxRetries
  /\ call.name \in fallbackStrategies
  /\ call.fallbackRan = "threw"
  /\ call.outcome = "null"

\* the call is one of C6: no graceful degradation, no retry, an operation
\* that fails whenever it is invoked, and the call has returned
StrictFailingCallDone ==
  /\ call.pc = "done"
  /\ ~call.enableGracefulDegradation
  /\ ~call.enableRetry
  /\ call.opKind = "fails"

\* C6 (as claimed): with enableGracefulDegradation false and enableRetry
\* false every protect call for an always-failing operation rejects, whatever
\* the state of the circuit breaker of its name.
C6_AlwaysRejects == StrictFailingCallDone => call.outcome = "rejected"

\* C6 (amended): such a call rejects, except when the circuit breaker is
\* enabled for it and it finds the breaker OPEN no more than 30 000 ms after
\* the last failure: then it does not invoke the operation and resolves with
\* the result of the fallback, or with null when no fallback is registered
\* or the fallback throws.
C6_RejectsUnlessCircuitOpen ==
  StrictFailingCallDone =>
    IF call.enableCircuitBreaker /\ call.openAtStart
    THEN /\ call.invoked = 0
         /\ call.outcome \in {"fallback", "null"}
         /\ call.outcome = "fallback" <=> call.fallbackRan = "fulfilled"
    ELSE call.invoked = 1 /\ call.outcome = "rejected"

\* C6 witness: the fourth of four such calls in a row, as in
\* testErrorBoundary: three were rejected and opened the circuit, the fourth
\* resolved with null without invoking the operation.
C6_Witness ==
  /\ StrictFailingCallDone
  /\ call.enableCircuitBreaker
  /\ call.openAtStart
  /\ nCalls = 4
  /\ failStreak[call.name] = 3
  /\ call.name \notin fallbackStrategies
  /\ call.outcome = "null"

(***************************************************************************)
(* Claims about the element finder                                         *)
(***************************************************************************)
\* element e of document d passes the validator of the caller and the
\* validator of group g, when the group has one
Validated(d, e, g) ==
  d[e].callerOk /\ (selectorGroups[g].validator => d[e].groupOk)

\* the positions in SelectorPairs of the pairs whose selector does not throw
\* and matches some element of d that passes both validators
ValidatedPairs(d) ==
  {i \in 1..Len(SelectorPairs) :
     LET p == SelectorPairs[i]
         selector == selectorGroups[p[1]].selectors[p[2]]
     IN /\ selector \notin UnsupportedSelectors
        /\ \E e \in 1..Len(d) : selector \in d[e].matches /\ Validated(d, e, p[1])}

\* C7: findElementWithRetry resolves with the first (group, selector) pair,
\* in group order and then selector order, whose selector matches an element
\* passing both validators, and with such an element; it returns no pair
\* when an earlier pair matched a validated element in the same round, and
\* a round resolves nothing only when no pair matches a validated element;
\* a selector that throws is skipped. (The document is the one the last
\* round probed.)
C7_FirstValidatedPair ==
  finder.pc = "resolved" =>
    LET good == ValidatedPairs(dom) IN
    IF finder.result = NullResult
    THEN good = {}
    ELSE \E i \in good :
           /\ \A j \in good : i <= j
           /\ finder.result.selector =
                selectorGroups[SelectorPairs[i][1]].selectors[SelectorPairs[i][2]]
           /\ finder.result.strategy = selectorGroups[SelectorPairs[i][1]].name
           /\ finder.result.selector \in dom[finder.result.element].matches
           /\ Validated(dom, finder.result.element, SelectorPairs[i][1])

\* the rounds a call may make: options.maxAttempts, 15 when it is not passed
RoundsAllowed == IF finder.option = 0 THEN 15 ELSE finder.option

\* the safety part of C8
C8_RoundsBounded ==
  /\ finder.attempts <= RoundsAllowed
  /\ finder.misses <= finder.attempts
  /\ finder.pc = "waiting" => finder.misses = finder.attempts
  /\ finder.pc = "resolved" =>
       /\ finder.attempts >= 1
       /\ finder.result = NullResult <=>
            (finder.attempts = RoundsAllowed /\ finder.misses = RoundsAllowed)
       /\ finder.result # NullResult => finder.misses = finder.attempts - 1

\* C8: findElementWithRetry always terminates: it makes at most maxAttempts
\* probe rounds (15 when the option is not passed), resolves with null
\* exactly when all maxAttempts rounds found no validated element, makes no
\* further round once it has resolved, and a call that waits for its next
\* round does resolve.
C8_Terminates ==
  /\ []C8_RoundsBounded
  /\ [][finder.pc = "resolved" => finder' = finder]_vars
  /\ (finder.pc = "waiting") ~> (finder.pc = "resolved")

\* C8 witness: a call without the maxAttempts option has resolved with null
\* after 15 rounds that all found nothing.
C8_Witness ==
  /\ finder.pc = "resolved"
  /\ finder.option = 0
  /\ finder.attempts = 15
  /\ finder.misses = 15
  /\ finder.result = NullResult

(***************************************************************************)
(* Claims about the configuration merge                                    *)
(***************************************************************************)
\* the value the stored configuration defines for a key, undefined if none
StoredField(stored, key) ==
  IF stored[1] = "object" THEN Get(stored, key) ELSE Undefined

RECURSIVE HasDefaultShape(_, _, _)
\* m is an object with every key of defaults: a section of the defaults is
\* again such an object, any other field holds the stored value when the
\* stored configuration defines it and the default otherwise
HasDefaultShape(m, defaults, stored) ==
  /\ m[1] = "object"
  /\ \A key \in DOMAIN defaults[2] :
       /\ key \in DOMAIN m[2]
       /\ LET d == defaults[2][key]
              st == StoredField(stored, key)
          IN IF d[1] = "object"
             THEN HasDefaultShape(m[2][key], d, st)
             ELSE m[2][key] = (IF st[1] # "undefined" THEN st ELSE d)

\* C9: after a stored or imported configuration is merged with the defaults,
\* by StorageManager.mergeWithDefaults or by the popup's mergeWithDefaults /
\* deepMerge, the result has the default shape: every section of the
\* defaults is an object in it with every default field, the stored value
\* used wherever the stored configuration defines the field.
C9_MergedHasDefaultShape ==
  /\ mergedBy = "storage" =>
       HasDefaultShape(mergedConfig, StorageDefaultConfig, storedConfig)
  /\ mergedBy = "popup" =>
       HasDefaultShape(mergedConfig, PopupDefaultConfig, storedConfig)

(***************************************************************************)
(* Claims about the TemplateProcessor                                      *)
(***************************************************************************)
\* the variable bag of the call
Bag == Overlay(getDefaultVariables(personalEmail), variables)

\* the placeholder as it stands in the template
Verbatim(name) == <<"{", name, "}">>

\* the text of the tokens with every placeholder replaced as repl says
RECURSIVE Substitute(_, _)
Substitute(tokens, repl) ==
  IF tokens = <<>> THEN <<>>
  ELSE LET t == Head(tokens)
       IN (IF t[1] = "lit" THEN <<t[2]>> ELSE repl[t[2]])
          \o Substitute(Tail(tokens), repl)

\* the bag holds a non-empty value for the name
HasValue(name) ==
  /\ name \in DOMAIN Bag
  /\ Bag[name][1] = "string"
  /\ Bag[name][2] # <<>>

\* what C10 says each placeholder is replaced by; filler is what stands in
\* for a key of the bag that has neither a value nor a static fallback
ClaimedReplacement(filler) ==
  [name \in PlaceholderNames |->
     IF name \notin DOMAIN Bag THEN Verbatim(name)
     ELSE IF HasValue(name) THEN Bag[name][2]
     ELSE IF name \in DOMAIN fallbacks THEN fallbacks[name][2]
     ELSE filler]

\* the template has a placeholder of that name
Uses(name) == \E i \in 1..Len(template) : template[i] = Var(name)

\* C10 (as claimed): processTemplate replaces every placeholder whose name
\* is a key of the bag, by the value when it is not empty and by the static
\* fallback otherwise, that is by something other than the placeholder; only
\* placeholders whose name is not in the bag are left verbatim; what is put
\* in is not scanned again. (Stated for templates that use no name every
\* object inherits.)
C10_EveryBagKeyReplaced ==
  (processed # NotProcessed /\ \A name \in InheritedProperties : ~Uses(name)) =>
    \E filler \in {<<>>, <<"undefined">>} :
      processed = cleanupTemplate(Substitute(template, ClaimedReplacement(filler)))

\* what each placeholder is replaced by
ActualReplacement ==
  [name \in PlaceholderNames |->
     IF HasValue(name) THEN Bag[name][2]
     ELSE IF name \in DOMAIN Bag
          THEN (IF name \in DOMAIN fallbacks THEN fallbacks[name][2]
                ELSE Verbatim(name))
          ELSE IF name \in InheritedProperties THEN NativeFunction[2]
          ELSE Verbatim(name)]

\* C10 (amended): processTemplate replaces a placeholder whose name is a key
\* of the bag by the value when it is not empty, otherwise by the static
\* fallback when the name has one, and leaves it verbatim when it has none;
\* a placeholder whose name is not a key of the bag is left verbatim, unless
\* the name is a property every object inherits, whose text is then put in;
\* what is put in is not scanned again; cleanupTemplate is applied to the
\* whole result.
C10_ReplacedOrKept ==
  processed # NotProcessed =>
    processed = cleanupTemplate(Substitute(template, ActualReplacement))

\* C10 witness: a template of three placeholders: myEmail, a key of the bag
\* with an empty value and no fallback, is kept; jobTitle is replaced by its
\* value, which has the form of a placeholder and stays; company, passed
\* empty, is replaced by its static fallback.
C10_Witness ==
  /\ template = <<Var("myEmail"), Var("jobTitle"), Var("company")>>
  /\ personalEmail = Text(<<>>)
  /\ DOMAIN variables = {"jobTitle", "company"}
  /\ variables["company"] = Text(<<>>)
  /\ processed = <<"{", "myEmail", "}", "{", "company", "}", "the", Space, "company">>

(***************************************************************************)
(* Claims about insertPersonalizedMessage                                  *)
(***************************************************************************)
RECURSIVE FirstWord(_)
\* the first word of a text that does not start with white space
FirstWord(s) ==
  IF s = <<>> THEN <<>>
  ELSE IF Head(s) \in WhiteSpace THEN <<>>
  ELSE <<Head(s)>> \o FirstWord(Tail(s))

\* the order of the strategies: the profile page is read only after the
\* modal gave no name, prompt() is shown only after the profile page gave
\* none either, and at most once
StrategiesInOrder ==
  /\ inserter.profileNameResult # NoValue => inserter.nameResult = Null
  /\ inserter.prompts > 0 =>
       inserter.nameResult = Null /\ inserter.profileNameResult = Null
  /\ inserter.prompts <= 1

\* Cancel or an entry of white space only: nothing is inserted
NothingWithoutEntry ==
  (inserter.prompts > 0 /\ ~EntryGiven(inserter.fallbackName)) =>
     inserter.pc = "done" /\ inserter.handled = <<>> /\ ~inserter.caught

\* a name was detected or entered
NameKnown ==
  \/ inserter.nameResult \notin {NoValue, Null}
  \/ inserter.profileNameResult \notin {NoValue, Null}
  \/ (inserter.prompts > 0 /\ EntryGiven(inserter.fallbackName))

\* the name detected or entered, trimmed
KnownName ==
  IF inserter.nameResult \notin {NoValue, Null} THEN StringTrim(inserter.nameResult[2])
  ELSE IF inserter.profileNameResult \notin {NoValue, Null}
       THEN inserter.profileNameResult[2]
  ELSE StringTrim(inserter.fallbackName[2])

\* C11 (as claimed): the strategies run in the order modal, profile page,
\* prompt(); on Cancel or a blank entry nothing is inserted; otherwise
\* handleNameDetected is called exactly once, with the first word of the
\* detected or entered name.
C11_CalledWithFirstWord ==
  /\ StrategiesInOrder
  /\ NothingWithoutEntry
  /\ NameKnown =>
       /\ Len(inserter.handled) = 1
       /\ inserter.handled[1][1] = FirstWord(KnownName)

\* C11 (amended): as claimed, except for the argument: a detected name is
\* cut at its first space character only (other white space does not end
\* the first name), and a name entered at the prompt is passed whole,
\* trimmed, however many words it has.
C11_CalledWithSplitOrEntry ==
  /\ StrategiesInOrder
  /\ NothingWithoutEntry
  /\ NameKnown =>
       /\ Len(inserter.handled) = 1
       /\ inserter.handled[1][1] =
            IF inserter.prompts > 0 THEN KnownName
            ELSE LET spaces == {i \in 1..Len(KnownName) : KnownName[i] = Space}
                 IN IF spaces = {} THEN KnownName
                    ELSE SubSeq(KnownName, 1,
                                (CHOOSE i \in spaces : \A j \in spaces : i <= j) - 1)

\* C11 witness: neither the modal nor the profile page gave a name, the user
\* entered two words at the prompt and handleNameDetected has returned.
C11_Witness ==
  /\ inserter.pc = "done"
  /\ inserter.nameResult = Null
  /\ inserter.profileNameResult = Null
  /\ inserter.prompts = 1
  /\ inserter.fallbackName = Text(<<"J", Space, "S">>)
  /\ Len(inserter.handled) = 1
  /\ ~inserter.caught

(***************************************************************************)
(* Claims about the ResourceManager                                        *)
(***************************************************************************)
\* getResourceStats().total
ResourceTotal == Cardinality(listeners) + Cardinality(observers) + Cardinality(timers)

\* every resource that was tracked is released by the step
TrackedReleased ==
  /\ attached' \cap listeners = {}
  /\ observing' \cap observers = {}
  /\ armed' \cap timers = {}

\* C12: a call of ResourceManager.cleanup() removes every tracked listener,
\* disconnects every tracked observer and clears every tracked timer, and
\* leaves the listeners, observers and timers sets empty, so that
\* getResourceStats reports total 0.
C12_CleanupLeavesNothing ==
  [][cleanups' # cleanups =>
       /\ TrackedReleased
       /\ listeners' = {} /\ observers' = {} /\ timers' = {}
       /\ ResourceTotal' = 0]_vars

(***************************************************************************)
(* Claims about TemplateProcessor.selectTemplate                           *)
(***************************************************************************)
\* the fragment as written and the lower-case word have the same letters
SameLetters(written, word) ==
  <<written, word>> \in
    {<<"Engineer", "engineer">>, <<"developer", "developer">>,
     <<"RECRUITER", "recruiter">>, <<"hiring", "hiring">>, <<"Talent", "talent">>,
     <<"NYU", "nyu">>, <<"New York ", "new york ">>, <<"University", "university">>}

\* the text v contains one of the words, in whatever case
ContainsAny(v, words) ==
  /\ v[1] = "string"
  /\ \E w \in words : \E i \in 1..Len(v[2]) :
       /\ i + Len(w) - 1 <= Len(v[2])
       /\ \A k \in 1..Len(w) : SameLetters(v[2][i + k - 1], w[k])

\* the key the claim's priority gives
ClaimedKey ==
  IF ContainsAny(profileData.role, {<<"engineer">>, <<"developer">>})
  THEN "engineer"
  ELSE IF ContainsAny(profileData.role, {<<"recruiter">>, <<"hiring">>, <<"talent">>})
  THEN "recruiter"
  ELSE IF ContainsAny(profileData.university, {<<"nyu">>, <<"new york ", "university">>})
  THEN "sameUniversity"
  ELSE "general"

\* C13: selectTemplate picks 'engineer' exactly when the role contains
\* 'engineer' or 'developer' in any case; otherwise 'recruiter' exactly when
\* the role contains 'recruiter', 'hiring' or 'talent'; otherwise
\* 'sameUniversity' when the university contains 'nyu' or 'new york
\* university'; otherwise 'general'. The user template under the chosen key
\* is returned when there is one, the default one otherwise, and the result
\* is never undefined.
C13_TemplateByPriority ==
  selected # NotSelected =>
    /\ selected[2] = ClaimedKey
    /\ selected[1] = IF ClaimedKey \in userTemplates THEN "user" ELSE "default"
    /\ selected[2] \in userTemplates \cup DefaultTemplateKeys

\* C13 witness: a role naming both a recruiter and an engineer, written in
\* capitals, of an NYU alumnus, with a user template stored under
\* 'engineer': the user's engineer template was selected.
C13_Witness ==
  /\ profileData.role = Text(<<"RECRUITER", "Engineer">>)
  /\ profileData.university = Text(<<"NYU">>)
  /\ "engineer" \in userTemplates
  /\ selected = <<"user", "engineer">>

(***************************************************************************)
(* Claims about the circuit breaker's states                               *)
(***************************************************************************)
\* the step records a failure for the name n
FailureRecorded(n) ==
  /\ circuitBreakers'[n] # NoBreaker
  /\ circuitBreakers'[n].consecutiveFailures = circuitBreakers[n].consecutiveFailures + 1

\* C16: a HALF_OPEN breaker becomes CLOSED only by the second of two
\* successes recorded in a row, no failure being recorded between them: at
\* the closing step one success has been counted since HALF_OPEN and no
\* failure has been recorded since (consecutiveFailures, which every
\* recorded success sets to 0 and every recorded failure increments, is 0).
C16_ClosedByConsecutiveSuccesses ==
  [][\A n \in Names :
       (circuitBreakers[n].state = "HALF_OPEN" /\ circuitBreakers'[n].state = "CLOSED")
         => /\ circuitBreakers[n].consecutiveSuccesses = successThreshold - 1
            /\ circuitBreakers[n].consecutiveFailures = 0]_vars

\* C17: a failure recorded while the breaker is HALF_OPEN returns it to
\* OPEN, whatever successes were recorded since it became HALF_OPEN.
C17_HalfOpenFailureReopens ==
  [][\A n \in Names :
       (circuitBreakers[n].state = "HALF_OPEN" /\ FailureRecorded(n))
         => circuitBreakers'[n].state = "OPEN"]_vars

\* the step is the start of a protect call with the circuit breaker enabled
\* that finds more than 30 000 ms elapsed since the last recorded failure
\* of the name n
ProtectFindsTimeoutPassed(n) ==
  /\ nCalls' = nCalls + 1
  /\ call'.name = n
  /\ call'.enableCircuitBreaker
  /\ now - lastFailed[n] > 30000

\* C18: the state of a breaker changes only along CLOSED -> OPEN,
\* OPEN -> HALF_OPEN, HALF_OPEN -> CLOSED and HALF_OPEN -> OPEN (a breaker
\* is created CLOSED), and it leaves OPEN only at the start of a protect
\* call that finds more than 30 000 ms elapsed since the last recorded
\* failure, or when the breaker is reset, which deletes it.
C18_StateChanges ==
  [][\A n \in Names :
       LET before == circuitBreakers[n].state
           after == circuitBreakers'[n].state
       IN before # after =>
            \/ after = "NONE"
            \/ before = "NONE" /\ after = "CLOSED"
            \/ before = "CLOSED" /\ after = "OPEN"
            \/ before = "OPEN" /\ after = "HALF_OPEN" /\ ProtectFindsTimeoutPassed(n)
            \/ before = "HALF_OPEN" /\ after \in {"CLOSED", "OPEN"}]_vars

\* C18 witness: a breaker that has gone round: opened by three failures,
\* found HALF_OPEN after the timeout and closed by two successes counted
\* there.
C18_Witness ==
  \E n \in Names :
    /\ circuitBreakers[n].state = "CLOSED"
    /\ circuitBreakers[n].consecutiveSuccesses = successThreshold
    /\ lastFailed[n] + circuitTimeout < now

\* C19: a protect call that returned the operation's own result, at the
\* first execution or on a retry, counts as a success for the breaker: it
\* leaves no failure counted (consecutiveFailures is 0 when it returns), so
\* that calls which all return the operation's result never open the
\* circuit.
C19_RetriedSuccessCounts ==
  (call.pc = "done" /\ call.outcome = "result" /\ call.enableCircuitBreaker) =>
     /\ circuitBreakers[call.name].consecutiveFailures = 0
     /\ circuitBreakers[call.name].state # "OPEN"

(***************************************************************************)
(* Claims about cancelAll and cleanup                                      *)
(***************************************************************************)
\* C15: every promise returned by enqueue is eventually settled, given that
\* each closure terminates or runs into its timeout, also when cancelAll()
\* or ResourceManager.cleanup() runs while the operation is queued,
\* executing or waiting for a retry.
C15_EveryPromiseSettles ==
  \A id \in 1..MaxOps :
    (id \in OpIds) ~> (id \in OpIds /\ ops[id].settled # "pending")

\* C20: after cancelAll() every operation that was enqueued, not completed
\* and not executing at the call, an operation waiting for its retry timer
\* included, is rejected with 'Operation cancelled' and is not executed
\* again.
C20_CancelledNeverRuns ==
  [][\A id \in pendingAtCancel' :
       /\ ops'[id].settled = "rejected"
       /\ ops'[id].value = <<"cancelled", 0>>
       /\ id \in pendingAtCancel => ops'[id].execs = ops[id].execs]_vars

(***************************************************************************)
(* Claims about the connection flow                                        *)
(***************************************************************************)
\* the first Connect click was handled and the page inserted the modal
\* promptly
PromptModal == clicks >= 1 /\ modalShownAt \in 1..PromptMs

\* C14: when a Connect click is handled and the modal appears promptly, the
\* connect_button_click operation does not fail, and neither its 15 s queue
\* timeout nor the 10 s error-boundary timeout of modal_detection fires (the
\* modal_detection operation it awaits runs while it is executing).
C14_ConnectCompletesWithoutTimeout ==
  PromptModal =>
    /\ ops[1].status # "failed"
    /\ <<"queue", "connect_button_click">> \notin timedOut
    /\ <<"boundary", "modal_detection">> \notin timedOut

(***************************************************************************)
(* Claims about calculateRetryDelay                                        *)
(***************************************************************************)
\* C28: for every attempt number n >= 1 and every jitter value the delay
\* calculateRetryDelay returns does not exceed retryConfig.maxDelay, 8000 ms.
C28_DelayWithinMaxDelay == retryDelay <= maxDelay

RanksBefore(stats, a, b) ==
  LET lhs == RateNum(stats, a) * RateDen(stats, b)
      rhs == RateNum(stats, b) * RateDen(stats, a)
  IN lhs > rhs \/ (lhs = rhs /\ DeclaredAt(a) < DeclaredAt(b))

\* a sequence of strategies that starts with the best ranked strategy and
\* goes on in ranking order without a gap
InRankOrder(stats, tried) ==
  /\ \A i, j \in 1..Len(tried) : i < j => RanksBefore(stats, tried[i], tried[j])
  /\ \A i \in 1..Len(tried) :
       \A t \in StrategyNames \ {tried[k] : k \in 1..Len(tried)} :
         RanksBefore(stats, tried[i], t)

\* C30: a findElement call that searches tries the strategies in the order of
\* their success rates as they are when the call starts (0.5 for a strategy
\* never attempted, declaration order among equal rates), in its first round
\* and in every retry round; and success never exceeds attempts.
C30_TriedByRateAtCallStart ==
  [][/\ \A t \in StrategyNames : strategyStats'[t].success <= strategyStats'[t].attempts
     /\ Len(findCalls') > Len(findCalls) =>
          /\ InRankOrder(strategyStats, lastTried')
          /\ LET started == findCalls'[Len(findCalls')]
             IN started.state = "retrying" =>
                  /\ Len(started.strategies) = Len(StrategyTypes)
                  /\ InRankOrder(strategyStats, started.strategies)
     /\ \A n \in 1..Len(findCalls) :
          findCalls'[n] # findCalls[n] =>
            /\ Len(lastTried') <= Len(findCalls[n].strategies)
            /\ lastTried' = SubSeq(findCalls[n].strategies, 1, Len(lastTried'))]_vars

\* C30 witness: a round has tried the structural strategy first and then the
\* fallback strategy, the rates of the four strategies being 0, 0, 1 and 0.5
C30_Witness ==
  /\ lastTried = <<"structural", "fallback">>
  /\ strategyStats["structural"].success >= 1
  /\ strategyStats["primary"].attempts >= 1
  /\ \A t \in StrategyNames : strategyStats[t].success <= strategyStats[t].attempts

(***************************************************************************)
(* Claims about the StorageManager                                         *)
(***************************************************************************)
\* C25: nothing modifies defaultConfig: it stays equal to what
\* getDefaultConfig returned, and so does what a resetToDefaults call stores
\* and returns.
C25_DefaultsStayOriginal ==
  /\ defaultConfig = StorageDefaultConfig
  /\ \A n \in 1..Len(storageCalls) :
       LET c == storageCalls[n]
       IN c.op = "resetToDefaults" /\ c.pc = "done" =>
            c.returned = StorageDefaultConfig

\* C26: two updateSection calls on different sections, overlapping or not,
\* both written to chrome.storage.sync and with nothing but loadConfig calls
\* beside them, have both taken effect on the stored configuration when
\* they have returned.
C26_BothUpdatesTakeEffect ==
  \A i, j \in 1..Len(storageCalls) :
    LET a == storageCalls[i]
        b == storageCalls[j]
    IN (/\ a.op = "updateSection" /\ a.section = "personalInfo"
        /\ b.op = "updateSection" /\ b.section = "templateSettings"
        /\ a.pc = "done" /\ b.pc = "done"
        /\ a.written /\ b.written
        /\ \A m \in 1..Len(storageCalls) \ {i, j} : storageCalls[m].op = "loadConfig")
       => /\ Get(Get(syncStorage, "personalInfo"), "email") = Str("x")
          /\ Get(Get(syncStorage, "templateSettings"), "autoSelectTemplate") = Bool(FALSE)

\* C27: TemplateProcessor.addCustomTemplate returns true only when the
\* configuration with the template has been written; when the write fails it
\* returns false and, no other call adding or removing templates,
\* userTemplates is as it was before the call.
C27_AddReportsWriteFailure ==
  \A n \in 1..Len(storageCalls) :
    LET c == storageCalls[n]
    IN c.op = "addCustomTemplate" /\ c.pc = "done" =>
         /\ c.returned = Bool(TRUE) => c.written
         /\ ~c.written =>
              /\ c.returned = Bool(FALSE)
              /\ (\A m \in 1..Len(storageCalls) \ {n} :
                    storageCalls[m].op \notin {"addCustomTemplate", "removeCustomTemplate"})
                 => (CustomName \in userTemplates <=> c.hadTemplate)

(***************************************************************************)
(* Claims about the waits of content.js and the toggle                     *)
(***************************************************************************)
\* C21: a waitForConnectionModal call calls fillConnectionMessage at most
\* once, and a waitForTextareaAndInsert call calls insertPersonalizedMessage
\* at most once.
C21_PipelineRunsOnce ==
  /\ \A n \in 1..Len(modalWaits) : modalWaits[n].proceeded <= 1
  /\ \A n \in 1..Len(textareaWaits) : textareaWaits[n].proceeded <= 1

\* C22: waitForConnectionModal comes to its end without the help of the
\* page: a call whose observer is still observing has its timer pending, so
\* that no call is left to wait for a DOM mutation that may never come.
C22_WaitEndsWithoutMutation ==
  \A n \in 1..Len(modalWaits) : modalWaits[n].observing => modalWaits[n].timer

\* C24: no message is written into a textarea while extensionEnabled is
\* false, and a click made while it is false starts no flow.
C24_NothingInsertedWhileDisabled ==
  /\ ~insertedWhileDisabled
  /\ flowsStarted <= enabledClicks

(***************************************************************************)
(* Claims about the v3.1 script and the visibility of the tab              *)
(***************************************************************************)
\* C23: every click on a Connect button made while extensionEnabled is true
\* has started a connection flow.
C23_EveryEnabledClickStartsFlow == flowsStarted = enabledClicks

(***************************************************************************)
(* Claims about handleConnection of the v4 script                          *)
(***************************************************************************)
\* the call c has ended without writing: one error notification, no success
EndedInError(c) ==
  /\ c.errors = 1
  /\ c.successes = 0
  /\ \A i \in 1..Len(c.events) : c.events[i] # "written"

\* the polls the call c may still make are within maxAttempts
WithinPolls(c) ==
  /\ c.pc = "modal" => c.attempts < fastModalMaxAttempts
  /\ c.pc = "button" => c.attempts < fastButtonMaxAttempts
  /\ c.pc = "textarea" => c.attempts < fastTextareaMaxAttempts

\* C31: handleConnection writes a message only after the modal was detected,
\* the button found and clicked and the textarea detected, in this order; a
\* call that fails shows one error notification and changes no textarea; a
\* call makes at most 20 modal polls, 5 button probes and 15 textarea polls,
\* and only a call that completes its steps changes the textarea.
C31_WriteAfterStepsWithinPolls ==
  [][ /\ \A n \in 1..Len(handleCalls') :
           LET c == handleCalls'[n] IN
           /\ c.successes = 1 <=> c.events = AllSteps
           /\ (\E i \in 1..Len(c.events) : c.events[i] = "written") => c.events = AllSteps
           /\ c.pc = "failed" <=> EndedInError(c)
           /\ c.pc = "done" <=> (c.successes = 1 /\ c.errors = 0)
           /\ c.errors + c.successes <= 1
           /\ WithinPolls(c)
           /\ n <= Len(handleCalls) /\ c.pc = handleCalls[n].pc /\ c.pc \in {"modal", "button", "textarea"}
                => c.attempts \in {handleCalls[n].attempts, handleCalls[n].attempts + 1}
      /\ dialog'.value # dialog.value =>
           \E n \in 1..Len(handleCalls') :
             /\ handleCalls'[n].events = AllSteps
             /\ n > Len(handleCalls) \/ handleCalls[n].events # AllSteps
    ]_vars

\* C31 witness: a call went through every step and has written the message
\* into the textarea.
C31_Witness ==
  /\ \E n \in 1..Len(handleCalls) :
       /\ handleCalls[n].pc = "done"
       /\ handleCalls[n].events = AllSteps
       /\ handleCalls[n].successes = 1
       /\ handleCalls[n].errors = 0
  /\ dialog.value = "message"

====
